---------------------------- MODULE Spec2Model ----------------------------
(***************************************************************************)
(* oaipmh-scythe: the request dispatcher (Scythe.harvest with its retry    *)
(* loop), the pagination iterators (BaseOAIIterator, OAIResponseIterator   *)
(* and OAIItemIterator) that drive it with resumption tokens, and the      *)
(* methods of Scythe (list_records, ..., get_record, identify) that build  *)
(* the queries and the iterators.                                          *)
(*                                                                         *)
(* The HTTP transport and the XML parser are the environment: a transport  *)
(* request is answered by any response of TransportResponses, and a parsed *)
(* body is a record holding what the iterator reads from it (the error     *)
(* element, the resumptionToken element, the matching elements).           *)
(***************************************************************************)
EXTENDS Integers, Sequences, FiniteSets, TLC

(***************************************************************************)
(* Bounds of the model.                                                    *)
(***************************************************************************)
\* the largest max_retries a Scythe is constructed with
MaxRetries == 3
\* the largest number of matching elements on one page
MaxItems == 2
\* the largest number of page requests (harvest calls) one iterator makes
MaxFetches == 3
\* the largest number of HTTP clients one Scythe creates
MaxClients == 3

(***************************************************************************)
(* Python values.                                                          *)
(***************************************************************************)
\* None where a str is expected
None == "None"

\* None where an object is expected
NoneObject == [none |-> TRUE]

\* truthiness of a str | None value, as `x and ...` / `x or ...` test it
Truthy(x) == x # None /\ x # ""

\* the object is not None (a ResumptionToken or OAIResponse instance has no
\* __bool__ or __len__, hence is always true)
IsObject(x) == x # NoneObject

(***************************************************************************)
(* Strings the code takes apart.  A string whose first character the code  *)
(* inspects is the pair of its first character and its remainder; the      *)
(* empty string is EmptyStr.  A header value holds its characters.           *)
(***************************************************************************)
EmptyStr == [head |-> "", tail |-> ""]

S(h, t) == [head |-> h, tail |-> t]

LowerCase == <<"a", "b", "c", "d", "e", "f", "g", "h", "i", "j", "k", "l", "m",
               "n", "o", "p", "q", "r", "s", "t", "u", "v", "w", "x", "y", "z">>

UpperCase == <<"A", "B", "C", "D", "E", "F", "G", "H", "I", "J", "K", "L", "M",
               "N", "O", "P", "Q", "R", "S", "T", "U", "V", "W", "X", "Y", "Z">>

\* a Python that leaves the first character as it is
UpperOmitted(c) == c

\* str.upper() of one character: a lower-case letter maps to its capital,
\* every other character to itself
Upper(c) ==
    IF \E k \in DOMAIN LowerCase : LowerCase[k] = c
    THEN UpperCase[CHOOSE k \in DOMAIN LowerCase : LowerCase[k] = c]
    ELSE c

Digits == <<"0", "1", "2", "3", "4", "5", "6", "7", "8", "9">>

IsDigit(c) == \E k \in DOMAIN Digits : Digits[k] = c

DigitValue(c) == (CHOOSE k \in DOMAIN Digits : Digits[k] = c) - 1

RECURSIVE DecimalValue(_)
DecimalValue(cs) ==
    IF cs = <<>> THEN 0
    ELSE 10 * DecimalValue(SubSeq(cs, 1, Len(cs) - 1)) + DigitValue(cs[Len(cs)])

\* names of exceptions that are not defined in exceptions.py
TypeError == S("T", "ypeError")
ValueError == S("V", "alueError")
IndexError == S("I", "ndexError")
HTTPStatusError == S("H", "TTPStatusError")

\* cs is a non-empty string of decimal digits
IsDecimal(cs) == cs # <<>> /\ \A k \in DOMAIN cs : IsDigit(cs[k])

\* int(x): TypeError for None, ValueError for a string that is no decimal
\* number, the number otherwise; the number may have a sign
PyInt(x) ==
    IF x = NoneObject THEN [exc |-> TypeError, value |-> 0]
    ELSE IF IsDecimal(x.chars)
         THEN [exc |-> NoneObject, value |-> DecimalValue(x.chars)]
         ELSE IF x.chars # <<>> /\ x.chars[1] = "-" /\ IsDecimal(Tail(x.chars))
              THEN [exc |-> NoneObject, value |-> 0 - DecimalValue(Tail(x.chars))]
              ELSE IF x.chars # <<>> /\ x.chars[1] = "+" /\ IsDecimal(Tail(x.chars))
                   THEN [exc |-> NoneObject, value |-> DecimalValue(Tail(x.chars))]
                   ELSE [exc |-> ValueError, value |-> 0]

(***************************************************************************)
(* The environment: what the transport answers and what the parser finds.  *)
(***************************************************************************)
SERVICE_UNAVAILABLE == 503

StatusCodes == {200, 422, 500, SERVICE_UNAVAILABLE}

\* a retry-after header that names a negative number
NegativeSeconds == [chars |-> <<"-", "1">>]

\* values of the retry-after header: absent, delay-seconds, an HTTP-date,
\* and a negative number
RetryAfterHeaders ==
    {NoneObject, [chars |-> <<"1", "0">>], [chars |-> <<"W", "e", "d">>], NegativeSeconds}

\* the code attribute of an error element: the eight codes of the taxonomy,
\* the protocol's own spelling noMetadataFormats, a code that is already
\* capitalised, the name of the base class, an unknown code, the empty
\* string, and no attribute at all
TaxonomyCodes ==
    { S("b", "adArgument"), S("b", "adVerb"), S("b", "adResumptionToken"),
      S("c", "annotDisseminateFormat"), S("i", "dDoesNotExist"),
      S("n", "oSetHierarchy"), S("n", "oMetadataFormat"), S("n", "oRecordsMatch") }

ErrorCodes ==
    TaxonomyCodes \cup
    { S("n", "oMetadataFormats"), S("B", "adVerb"), S("o", "AIPMHException"),
      S("x", "yz"), S("_", "_doc__"), EmptyStr, NoneObject }

\* the text of an error element
ErrorTexts == {None, "message"}

\* the text of a resumptionToken element: None for an empty element
Tokens == {"tokA", "tokB"}

TokenElements == {NoneObject} \cup [text : Tokens \cup {None}]

\* the status attribute of a header: either absent or "deleted"
ElementStatuses == {None, "deleted"}

RECURSIVE SeqsUpTo(_, _)
SeqsUpTo(A, n) ==
    IF n = 0 THEN {<<>>}
    ELSE LET shorter == SeqsUpTo(A, n - 1)
         IN  shorter \cup {Append(q, a) : q \in {r \in shorter : Len(r) = n - 1}, a \in A}

\* the matching elements of page number n, at most max of them, in document
\* order; an element is known by its page and its position
Elements(n, max) ==
    { [k \in 1..Len(flags) |-> [page |-> n, pos |-> k, status |-> flags[k]]] :
        flags \in SeqsUpTo(ElementStatuses, max) }

NoBody == [error |-> NoneObject, token |-> NoneObject, elements |-> <<>>]

\* the status and retry-after header of every response that is not a 200
\* answer with a parsed body
Failures == [status_code : StatusCodes, retry_after : RetryAfterHeaders]

(***************************************************************************)
(* State.                                                                  *)
(***************************************************************************)
\* the iterator objects a caller may construct
Iters == {1, 2}

\* the caller of harvest: an iterator, or DirectCall for client code
DirectCall == 0

VARIABLES
    scythe,            \* the Scythe instance (http_method, iterator, max_retries,
                       \* retry_status_codes, default_retry_after, encoding), or None
                       \* when none is constructed
    hpc,               \* where the running harvest call stands: idle, request, loop, sleep, exit
    caller,            \* who called harvest
    query,             \* harvest's argument
    http_response,     \* harvest's local http_response
    loop_i,            \* iterations of `for _ in range(self.max_retries)` completed
    retry_after,       \* harvest's local retry_after
    hresult,           \* how the harvest call ends: the response returned or the exception raised
    http_log,          \* the responses (status, retry-after) received during the harvest call
    sleeps,            \* the arguments of time.sleep during the harvest call
    warnings,          \* the logger.warning entries of the harvest call
    transport,         \* the calls of self.client.get and self.client.post made during the
                       \* harvest call, each with its arguments
    cls,               \* per iterator: its class
    params,            \* per iterator: self.params
    verb,              \* per iterator: self.verb
    ignore_deleted,    \* per iterator: self.ignore_deleted
    oai_response,      \* per iterator: self.oai_response
    resumption_token,  \* per iterator: self.resumption_token
    items,             \* per iterator: self._items, the elements not yet taken from it
    pc,                \* per iterator: none, ctor, ready, running, fetch, suspended, done, raised, failed
    raised,            \* per iterator: the exception that left the constructor or the generator last
    query0,            \* per iterator: the query it was constructed with
    nreq,              \* per iterator: the number of harvest calls it has made
    sent,              \* per iterator: the query of its latest transport request
    n_pages,           \* per iterator: the number of pages received without error
    last_token,        \* per iterator: the text of the resumptionToken element of the latest such
                       \* page (None when it has no such element or an empty one)
    fetched,           \* per iterator: the matching elements of the latest such page
    yielded,           \* per iterator: what was yielded since that page arrived, in order
    n_fetched,         \* per iterator: the number of matching elements on all such pages
    n_deleted,         \* per iterator: the number of those whose item is deleted
    n_yielded,         \* per iterator: the number of values yielded in all
    trace,             \* per iterator, when server.replay: the queries it sent and the items
                       \* it yielded, in order
    server,            \* what the server may answer: the error codes, failures and token
                       \* elements it produces, the bodies of its failures, the most elements
                       \* on one of its pages, whether it answers the n-th request of
                       \* every iterator alike (replay), and the encodings it declares
    log,               \* when server.replay: the answers given so far, by harvest call of
                       \* the iterator and by request within that call
    call               \* per caller: the method of Scythe that client code called (for an
                       \* iterator, the method that constructs it), its _query, the
                       \* warnings of utils.py it logged and how it ended

harvest_vars == <<hpc, caller, query, http_response, loop_i, retry_after, hresult,
                  http_log, sleeps, warnings, transport, log>>

history_vars == <<query0, nreq, sent, n_pages, last_token, fetched, yielded,
                  n_fetched, n_deleted, n_yielded, trace>>

iter_vars == <<cls, params, verb, ignore_deleted, oai_response, resumption_token,
               items, pc, raised, history_vars>>

vars == <<scythe, harvest_vars, iter_vars, server, call>>

\* who calls harvest or a method of Scythe: client code, or an iterator
Callers == {DirectCall} \cup Iters

\* an entry of trace: a query sent, or an item yielded
Sent(q) == [query |-> q, item |-> NoneObject]
Item(x) == [query |-> NoneObject, item |-> x]

\* parsed bodies: an error document, or a page of elements with or without a
\* resumptionToken element
Bodies(n) ==
    [error : [code : server.error_codes, text : ErrorTexts], token : {NoneObject}, elements : {<<>>}]
    \cup [error : {NoneObject}, token : server.tokens, elements : Elements(n, server.max_items)]

\* httpx.Response as the code reads it, answering request number n: a 200
\* answer with a parsed body, or a failure with one of the server's failure
\* bodies (NoBody, or an error document); its encoding is the one the server
\* declares
TransportResponses(n) ==
    [status_code : {200}, retry_after : {NoneObject}, body : Bodies(n), seq : {n},
     encoding : server.encodings]
    \cup { [status_code |-> f.status_code, retry_after |-> f.retry_after, body |-> b,
            seq |-> n, encoding |-> e] :
            f \in server.failures, b \in server.failure_bodies, e \in server.encodings }

(***************************************************************************)
(* Scythe.__init__                                                         *)
(***************************************************************************)
\* a collection of status codes as an argument; None is NoneObject
Codes(set) == [codes |-> set]

\* a constructor that takes the retry_status_codes it is given, and no
\* codes for None
ScytheInitGiven(http_method, iterator, max_retries, retry_status_codes, default_retry_after, encoding) ==
    [ http_method         |-> http_method,
      iterator            |-> iterator,
      max_retries         |-> max_retries,
      retry_status_codes  |-> IF retry_status_codes = NoneObject THEN {}
                              ELSE retry_status_codes.codes,
      default_retry_after |-> default_retry_after,
      encoding            |-> encoding,
      _client             |-> NoneObject ]

\* the object a constructor that does not raise leaves; `retry_status_codes
\* or (503,)`: None and an empty collection are false
ScytheInit(http_method, iterator, max_retries, retry_status_codes, default_retry_after, encoding) ==
    [ http_method         |-> http_method,
      iterator            |-> iterator,
      max_retries         |-> max_retries,
      retry_status_codes  |-> IF retry_status_codes = NoneObject \/ retry_status_codes = Codes({})
                              THEN {SERVICE_UNAVAILABLE} ELSE retry_status_codes.codes,
      default_retry_after |-> default_retry_after,
      encoding            |-> encoding,
      _client             |-> NoneObject ]

\* the http_method argument
HttpMethods == {"GET", "POST"}

\* the encoding argument: None (the default), an empty string, a codec name
EncodingArgs == {None, "", "latin_1"}

\* the retry_status_codes argument: None (the default), an empty collection,
\* and two collections of codes
RetryStatusCodesArgs ==
    { NoneObject, Codes({}), Codes({500, SERVICE_UNAVAILABLE}), Codes({200, SERVICE_UNAVAILABLE}) }

DefaultRetryAfterArgs == {0, 60}

(***************************************************************************)
(* Scythe.client and Scythe.close                                          *)
(***************************************************************************)
\* httpx.Client(...): the n-th client the Scythe creates, open
Client(n) == [id |-> n, is_closed |-> FALSE]

\* the number of clients created so far, given self._client
ClientsCreated(c) == IF c = NoneObject THEN 0 ELSE c.id

\* the HTTP client c is there and open
IsOpen(c) == c # NoneObject /\ ~c.is_closed

\* a property that creates a client only when there is none
clientOnce(c) == IF c = NoneObject THEN Client(1) ELSE c

\* the property client: self._client after it, which is what it returns
client(c) ==
    IF c = NoneObject \/ c.is_closed THEN Client(ClientsCreated(c) + 1) ELSE c

\* a close() that closes the client of the property client
closeCreating(c) == [client(c) EXCEPT !.is_closed = TRUE]

\* close(): self._client after it
close(c) ==
    IF c # NoneObject /\ ~c.is_closed THEN [c EXCEPT !.is_closed = TRUE] ELSE c

(***************************************************************************)
(* Scythe.harvest                                                          *)
(***************************************************************************)
\* httpx.codes.is_error; Scythe._is_error_code of scythe.py tests
\* status_code >= 400 alone, which is the same on StatusCodes
is_error(status_code) == status_code >= 400 /\ status_code <= 599

\* a retry condition that forgets is_error
ShouldRetryListed(resp) == resp.status_code \in scythe.retry_status_codes

\* the condition of the retry loop
ShouldRetry(resp) ==
    is_error(resp.status_code) /\ resp.status_code \in scythe.retry_status_codes

\* a get_retry_after that reads the header whatever the status is
get_retry_after_any_status(resp) ==
    LET parsed == PyInt(resp.retry_after)
    IN  IF parsed.exc = TypeError
        THEN [exc |-> NoneObject, value |-> scythe.default_retry_after]
        ELSE parsed

\* Scythe.get_retry_after: the number of seconds, or the exception it raises
get_retry_after(resp) ==
    IF resp.status_code = SERVICE_UNAVAILABLE
    THEN LET parsed == PyInt(resp.retry_after)
         IN  IF parsed.exc = TypeError
             THEN [exc |-> NoneObject, value |-> scythe.default_retry_after]
             ELSE parsed
    ELSE [exc |-> NoneObject, value |-> scythe.default_retry_after]

\* how a call ends: with a returned response, or with an exception of some
\* class carrying a message (protocol errors) or a status (HTTP errors)
Returned(response) ==
    [kind |-> "return", exc |-> NoneObject, msg |-> None, status |-> 0, response |-> response]

Raised(exc, msg, status) ==
    [kind |-> "raise", exc |-> exc, msg |-> msg, status |-> status, response |-> NoneObject]

NoResult ==
    [kind |-> "none", exc |-> NoneObject, msg |-> None, status |-> 0, response |-> NoneObject]

OAIResponse(resp) == [xml |-> resp.body, seq |-> resp.seq]

\* the end of harvest: raise_for_status, then the OAIResponse
HarvestResult(resp) ==
    IF is_error(resp.status_code)
    THEN Raised(HTTPStatusError, None, resp.status_code)
    ELSE Returned(OAIResponse(resp))

\* an override that is applied whatever the status is
WithEncodingUnchecked(resp) ==
    IF Truthy(scythe.encoding) THEN [resp EXCEPT !.encoding = scythe.encoding] ELSE resp

\* the response after the last lines of harvest: past raise_for_status,
\* `if self.encoding: http_response.encoding = self.encoding`
WithEncoding(resp) ==
    IF ~is_error(resp.status_code) /\ Truthy(scythe.encoding)
    THEN [resp EXCEPT !.encoding = scythe.encoding]
    ELSE resp

\* what the server may answer to the next request of caller c: a page is
\* known by the harvest call of the iterator that it answers
Replayed(c) ==
    /\ server.replay /\ c # DirectCall
    /\ nreq[c] <= Len(log)
    /\ Len(http_log) < Len(log[nreq[c]])

ServerResponses(c) ==
    IF Replayed(c)
    THEN {log[nreq[c]][Len(http_log) + 1]}
    ELSE TransportResponses(IF c = DirectCall THEN 0 ELSE nreq[c])

\* the server's record of its answer r to caller c
Logged(c, r) ==
    IF ~server.replay \/ c = DirectCall \/ Replayed(c) THEN log
    ELSE IF nreq[c] <= Len(log) THEN [log EXCEPT ![nreq[c]] = Append(@, r)]
    ELSE Append(log, <<r>>)

\* the entry of harvest(query) for caller c
EnterHarvest(c, q) ==
    /\ hpc' = "request"
    /\ caller' = c
    /\ query' = q
    /\ http_response' = NoneObject
    /\ loop_i' = 0
    /\ retry_after' = 0
    /\ hresult' = NoResult
    /\ http_log' = <<>>
    /\ sleeps' = <<>>
    /\ warnings' = <<>>
    /\ transport' = <<>>
    /\ UNCHANGED log

DirectQueries == { [verb |-> "Identify"] }

\* client code calls scythe.harvest(query)
Harvest ==
    /\ hpc = "idle"
    /\ \E q \in DirectQueries : EnterHarvest(DirectCall, q)
    /\ UNCHANGED <<scythe, iter_vars, server, call>>

\* a _request that always uses GET
TransportCallGet(q) == [method |-> "GET", params |-> q, data |-> NoneObject]

\* _request: self.client.get(endpoint, params=query) for GET, and
\* self.client.post(endpoint, data=query) otherwise
TransportCall(q) ==
    IF scythe.http_method = "GET"
    THEN [method |-> "GET", params |-> q, data |-> NoneObject]
    ELSE [method |-> "POST", params |-> NoneObject, data |-> q]

\* self._request(query): one round trip of the transport, on the client
\* that the property client returns
Request ==
    /\ hpc = "request"
    /\ scythe' = [scythe EXCEPT !._client = client(@)]
    /\ \E r \in ServerResponses(caller) :
         /\ http_response' = r
         /\ http_log' = Append(http_log, [status_code |-> r.status_code, retry_after |-> r.retry_after])
         /\ log' = Logged(caller, r)
    /\ sent' = IF caller = DirectCall THEN sent ELSE [sent EXCEPT ![caller] = query]
    /\ trace' = IF server.replay /\ caller # DirectCall
                THEN [trace EXCEPT ![caller] = Append(@, Sent(query))] ELSE trace
    /\ transport' = Append(transport, TransportCall(query))
    /\ hpc' = "loop"
    /\ UNCHANGED <<caller, query, loop_i, retry_after, hresult, sleeps, warnings,
                   cls, params, verb, ignore_deleted, oai_response, resumption_token, items,
                   pc, raised, query0, nreq, n_pages, last_token, fetched, yielded, n_fetched,
                   n_deleted, n_yielded, server, call>>

\* a loop that counts the retries of all the page fetches of an iterator:
\* those of the earlier harvest calls are the requests beyond the first that
\* the server recorded
RetriesLeftOfIterator ==
    LET RetriedBefore ==
            IF caller = DirectCall THEN 0
            ELSE Cardinality({ kj \in (1..Len(log)) \X (2..(MaxRetries + 2)) :
                                 kj[1] < nreq[caller] /\ kj[2] <= Len(log[kj[1]]) })
    IN  loop_i + RetriedBefore < scythe.max_retries

\* `for _ in range(self.max_retries)`: the loop of this call is not over
RetriesLeft == loop_i < scythe.max_retries

\* a retry loop over range(self.max_retries + 1)
LoopWarnInclusive ==
    /\ hpc = "loop"
    /\ loop_i <= scythe.max_retries
    /\ ShouldRetry(http_response)
    /\ get_retry_after(http_response).exc = NoneObject
    /\ retry_after' = get_retry_after(http_response).value
    /\ warnings' = Append(warnings, [status_code |-> http_response.status_code,
                                     wait |-> retry_after'])
    /\ hpc' = "sleep"
    /\ UNCHANGED <<scythe, caller, query, http_response, loop_i, hresult, http_log,
                   transport, sleeps, log, iter_vars, server, call>>

\* a loop iteration whose condition holds: get_retry_after and the warning
LoopWarn ==
    /\ hpc = "loop"
    /\ RetriesLeft
    /\ ShouldRetry(http_response)
    /\ get_retry_after(http_response).exc = NoneObject
    /\ retry_after' = get_retry_after(http_response).value
    /\ warnings' = Append(warnings, [status_code |-> http_response.status_code,
                                     wait |-> retry_after'])
    /\ hpc' = "sleep"
    /\ UNCHANGED <<scythe, caller, query, http_response, loop_i, hresult, http_log,
                   transport, sleeps, log, iter_vars, server, call>>

\* a loop iteration whose condition holds and in which get_retry_after raises
LoopRaise ==
    /\ hpc = "loop"
    /\ RetriesLeft
    /\ ShouldRetry(http_response)
    /\ get_retry_after(http_response).exc # NoneObject
    /\ hresult' = Raised(get_retry_after(http_response).exc, None, http_response.status_code)
    /\ hpc' = "exit"
    /\ UNCHANGED <<scythe, caller, query, http_response, loop_i, retry_after, http_log,
                   transport, sleeps, warnings, log, iter_vars, server, call>>

\* time.sleep(retry_after) with a negative number: it raises ValueError
\* ("sleep length must be non-negative") and harvest ends
LoopSleepRaise ==
    /\ hpc = "sleep"
    /\ retry_after < 0
    /\ hresult' = Raised(ValueError, None, http_response.status_code)
    /\ hpc' = "exit"
    /\ UNCHANGED <<scythe, caller, query, http_response, loop_i, retry_after, http_log,
                   transport, sleeps, warnings, log, iter_vars, server, call>>

\* time.sleep(retry_after); the request that follows is Request
LoopSleep ==
    /\ hpc = "sleep"
    /\ retry_after >= 0
    /\ sleeps' = Append(sleeps, retry_after)
    /\ loop_i' = loop_i + 1
    /\ hpc' = "request"
    /\ UNCHANGED <<scythe, caller, query, http_response, retry_after, hresult, http_log,
                   transport, warnings, log, iter_vars, server, call>>

\* a loop iteration whose condition is false: nothing happens
LoopSkip ==
    /\ hpc = "loop"
    /\ RetriesLeft
    /\ ~ShouldRetry(http_response)
    /\ loop_i' = loop_i + 1
    /\ UNCHANGED <<scythe, hpc, caller, query, http_response, retry_after, hresult, http_log,
                   transport, sleeps, warnings, log, iter_vars, server, call>>

\* after the loop: raise_for_status, the encoding override, and the response
\* is returned
HarvestEnd ==
    /\ hpc = "loop"
    /\ ~RetriesLeft
    /\ hresult' = HarvestResult(http_response)
    /\ http_response' = WithEncoding(http_response)
    /\ hpc' = "exit"
    /\ UNCHANGED <<scythe, caller, query, loop_i, retry_after, http_log,
                   transport, sleeps, warnings, log, iter_vars, server, call>>

\* the call is over: its locals are gone
LeaveHarvest ==
    /\ hpc' = "idle"
    /\ caller' = DirectCall
    /\ query' = [verb |-> None]
    /\ http_response' = NoneObject
    /\ loop_i' = 0
    /\ retry_after' = 0
    /\ hresult' = NoResult
    /\ http_log' = <<>>
    /\ sleeps' = <<>>
    /\ warnings' = <<>>
    /\ transport' = <<>>
    /\ UNCHANGED log

\* control is back in the client code that called harvest
HarvestReturn ==
    /\ hpc = "exit"
    /\ caller = DirectCall
    /\ LeaveHarvest
    /\ UNCHANGED <<scythe, iter_vars, server, call>>

HarvestStep ==
    \/ Request \/ LoopWarn \/ LoopRaise \/ LoopSleep \/ LoopSleepRaise \/ LoopSkip
    \/ HarvestEnd

(***************************************************************************)
(* exceptions.py and the decoding of an error element                      *)
(***************************************************************************)
OAIPMHException == S("O", "AIPMHException")
BadArgument == S("B", "adArgument")
BadVerb == S("B", "adVerb")
BadResumptionToken == S("B", "adResumptionToken")
CannotDisseminateFormat == S("C", "annotDisseminateFormat")
IdDoesNotExist == S("I", "dDoesNotExist")
NoSetHierarchy == S("N", "oSetHierarchy")
NoMetadataFormat == S("N", "oMetadataFormat")
NoRecordsMatch == S("N", "oRecordsMatch")
GeneralOAIPMHError == S("G", "eneralOAIPMHError")

\* the classes the module defines
ExceptionClasses ==
    { OAIPMHException, BadArgument, BadVerb, BadResumptionToken, CannotDisseminateFormat,
      IdDoesNotExist, NoSetHierarchy, NoMetadataFormat, NoRecordsMatch, GeneralOAIPMHError }

\* attributes of the module that are not callable (its docstring, its name)
ModuleStrings == { S("_", "_doc__"), S("_", "_name__") }

\* a decoding that knows the catch-all class alone
ErrorExceptionGeneral(error) ==
    Raised(GeneralOAIPMHError, IF Truthy(error.text) THEN error.text ELSE "", 0)

\* the exception that leaves _next_response for an error element
ErrorException(error) ==
    LET code == IF error.code = NoneObject THEN S("U", "NKNOWN") ELSE error.code
        description == IF Truthy(error.text) THEN error.text ELSE ""
    IN  IF code = EmptyStr
        THEN Raised(IndexError, None, 0)
        ELSE LET exception_name == S(Upper(code.head), code.tail)
             IN  IF exception_name \in ExceptionClasses
                 THEN Raised(exception_name, description, 0)
                 ELSE IF exception_name \in ModuleStrings
                      THEN Raised(TypeError, None, 0)
                      ELSE Raised(GeneralOAIPMHError, description, 0)

(***************************************************************************)
(* models.py: the items the mapper builds                                  *)
(***************************************************************************)
DEFAULT_CLASS_MAP ==
    [ v \in {"GetRecord", "ListRecords", "ListIdentifiers", "ListSets", "ListMetadataFormats"} |->
        CASE v \in {"GetRecord", "ListRecords"} -> "Record"
          [] v = "ListIdentifiers" -> "Header"
          [] v = "ListSets" -> "Set"
          [] v = "ListMetadataFormats" -> "MetadataFormat" ]

\* Header and Record set self.deleted; Set and MetadataFormat have no such attribute
HasDeleted(class) == class \in {"Header", "Record"}

\* self.mapper(item)
Mapped(v, element) ==
    [ page        |-> element.page,
      pos         |-> element.pos,
      class       |-> DEFAULT_CLASS_MAP[v],
      deleted     |-> HasDeleted(DEFAULT_CLASS_MAP[v]) /\ element.status = "deleted" ]

(***************************************************************************)
(* BaseOAIIterator                                                         *)
(***************************************************************************)
IteratorClasses == {"OAIResponseIterator", "OAIItemIterator"}

\* the queries an iterator is constructed with
IteratorQueries ==
    { [verb |-> "ListIdentifiers", metadataPrefix |-> "oai_dc", from |-> "2024-01-01"],
      [verb |-> "ListSets"],
      [verb |-> "ListRecords", resumptionToken |-> "tok0"] }

\* list_records and list_identifiers pass their ignore_deleted argument on to
\* the iterator; list_sets constructs it with the default, False
IgnoreDeletedArgs(q) == IF q.verb \in {"ListRecords", "ListIdentifiers"} THEN BOOLEAN ELSE {FALSE}

\* a test of self.resumption_token alone
HasTokenObject(token) == IsObject(token)

\* `self.resumption_token and self.resumption_token.token`
HasToken(token) == IsObject(token) /\ Truthy(token.token)

\* a _get_resumption_token that takes an empty element for no element
GetResumptionTokenText(response) ==
    IF IsObject(response) /\ IsObject(response.xml.token) /\ response.xml.token.text # None
    THEN [token |-> response.xml.token.text]
    ELSE NoneObject

\* _get_resumption_token: a ResumptionToken for a resumptionToken element
GetResumptionToken(response) ==
    IF IsObject(response) /\ IsObject(response.xml.token)
    THEN [token |-> response.xml.token.text]
    ELSE NoneObject

\* a _next_response that adds the token to the parameters it has
NextParamsMerged(token, v, p) ==
    IF HasToken(token)
    THEN [k \in DOMAIN p \cup {"resumptionToken"} |->
            IF k = "resumptionToken" THEN token.token ELSE p[k]]
    ELSE p

\* the query _next_response sends
NextParams(token, v, p) ==
    IF HasToken(token)
    THEN [resumptionToken |-> token.token, verb |-> v]
    ELSE p

\* no call is in progress: client code is running
Quiescent ==
    /\ hpc = "idle"
    /\ \A j \in Iters : pc[j] \notin {"ctor", "running", "fetch"}

\* a _next_response that reads the token which the other iterator stored,
\* when it has one
CallNextResponseShared(i) ==
    LET token == IF HasToken(resumption_token[3 - i]) THEN resumption_token[3 - i]
                 ELSE resumption_token[i]
    IN  /\ nreq[i] < MaxFetches
        /\ params' = [params EXCEPT ![i] = NextParams(token, verb[i], params[i])]
        /\ nreq' = [nreq EXCEPT ![i] = @ + 1]
        /\ fetched' = [fetched EXCEPT ![i] = <<>>]
        /\ yielded' = [yielded EXCEPT ![i] = <<>>]
        /\ EnterHarvest(i, params'[i])

\* the first lines of _next_response, up to the call of harvest
CallNextResponse(i) ==
    /\ nreq[i] < MaxFetches
    /\ params' = [params EXCEPT ![i] = NextParams(resumption_token[i], verb[i], params[i])]
    /\ nreq' = [nreq EXCEPT ![i] = @ + 1]
    /\ fetched' = [fetched EXCEPT ![i] = <<>>]
    /\ yielded' = [yielded EXCEPT ![i] = <<>>]
    /\ EnterHarvest(i, params'[i])

\* self.iterator(self, q, ignore_deleted=ign): __init__ up to the call of harvest
ConstructWith(i, q, ign) ==
    /\ cls' = [cls EXCEPT ![i] = scythe.iterator]
    /\ verb' = [verb EXCEPT ![i] = q.verb]
    /\ ignore_deleted' = [ignore_deleted EXCEPT ![i] = ign]
    /\ params' = [params EXCEPT ![i] = NextParams(NoneObject, q.verb, q)]
    /\ query0' = [query0 EXCEPT ![i] = q]
    /\ EnterHarvest(i, params'[i])
    /\ nreq' = [nreq EXCEPT ![i] = @ + 1]
    /\ pc' = [pc EXCEPT ![i] = "ctor"]
    /\ UNCHANGED <<scythe, oai_response, resumption_token, items, raised, sent, n_pages,
                   last_token, fetched, yielded, n_fetched, n_deleted, n_yielded, trace, server>>

\* client code constructs an iterator itself
Construct(i) ==
    /\ Quiescent
    /\ pc[i] = "none"
    /\ \E q \in IteratorQueries : \E ign \in IgnoreDeletedArgs(q) : ConstructWith(i, q, ign)
    /\ UNCHANGED call

\* self.oai_response = response: what the iterator reads of the response it
\* keeps once _next_response is over (whether it is there, its error element
\* and its resumptionToken element); the matching elements are read within
\* _next_response, into self._items
Kept(response) ==
    [ seq |-> response.seq,
      xml |-> [error |-> response.xml.error, token |-> response.xml.token] ]

\* a constructor that hands out its object although it raised
AfterRaiseObject(i) == "raised"

\* pc after an exception left _next_response: no object results from a
\* constructor that raised
AfterRaise(i) == IF pc[i] = "ctor" THEN "failed" ELSE "raised"

\* pc after _next_response returned
AfterReturn(i) == IF pc[i] = "ctor" THEN "ready" ELSE "running"

\* harvest raised: the exception leaves _next_response
NextResponseHarvestRaised(i) ==
    /\ hpc = "exit" /\ caller = i
    /\ hresult.kind = "raise"
    /\ LeaveHarvest
    /\ raised' = [raised EXCEPT ![i] = hresult]
    /\ pc' = [pc EXCEPT ![i] = AfterRaise(i)]
    /\ UNCHANGED <<scythe, cls, params, verb, ignore_deleted, oai_response,
                   resumption_token, items, history_vars, server, call>>

\* harvest returned a response holding an error element
NextResponseError(i) ==
    /\ hpc = "exit" /\ caller = i
    /\ hresult.kind = "return"
    /\ IsObject(hresult.response.xml.error)
    /\ LeaveHarvest
    /\ oai_response' = [oai_response EXCEPT ![i] = Kept(hresult.response)]
    /\ raised' = [raised EXCEPT ![i] = ErrorException(hresult.response.xml.error)]
    /\ pc' = [pc EXCEPT ![i] = AfterRaise(i)]
    /\ UNCHANGED <<scythe, cls, params, verb, ignore_deleted,
                   resumption_token, items, history_vars, server, call>>

\* the history of iterator i when the page xml arrives
PageArrives(i, xml) ==
    /\ n_pages' = [n_pages EXCEPT ![i] = @ + 1]
    /\ last_token' = [last_token EXCEPT ![i] = IF IsObject(xml.token) THEN xml.token.text ELSE None]
    /\ fetched' = [fetched EXCEPT ![i] = xml.elements]
    /\ yielded' = [yielded EXCEPT ![i] = <<>>]
    /\ n_fetched' = [n_fetched EXCEPT ![i] = @ + Len(xml.elements)]
    /\ n_deleted' = [n_deleted EXCEPT ![i] =
                        @ + Cardinality({k \in DOMAIN xml.elements :
                                            Mapped(verb[i], xml.elements[k]).deleted})]
    /\ UNCHANGED <<n_yielded, trace>>

\* harvest returned a page: the token is stored, and OAIItemIterator takes
\* the page's elements
NextResponsePage(i) ==
    /\ hpc = "exit" /\ caller = i
    /\ hresult.kind = "return"
    /\ ~IsObject(hresult.response.xml.error)
    /\ LeaveHarvest
    /\ oai_response' = [oai_response EXCEPT ![i] = Kept(hresult.response)]
    /\ resumption_token' = [resumption_token EXCEPT ![i] = GetResumptionToken(oai_response'[i])]
    /\ items' = [items EXCEPT ![i] = IF cls[i] = "OAIItemIterator"
                                     THEN hresult.response.xml.elements ELSE @]
    /\ pc' = [pc EXCEPT ![i] = AfterReturn(i)]
    /\ PageArrives(i, hresult.response.xml)
    /\ UNCHANGED <<scythe, cls, params, verb, ignore_deleted, raised,
                   query0, nreq, sent, server, call>>

\* an __iter__ that takes up the token of the last query again
IterateResending(i) ==
    /\ Quiescent
    /\ pc[i] \in {"ready", "done", "raised"}
    /\ pc' = [pc EXCEPT ![i] = "running"]
    /\ raised' = [raised EXCEPT ![i] = NoResult]
    /\ resumption_token' = [resumption_token EXCEPT ![i] =
                               IF "resumptionToken" \in DOMAIN params[i]
                               THEN [token |-> params[i].resumptionToken] ELSE @]
    /\ UNCHANGED <<scythe, harvest_vars, cls, params, verb, ignore_deleted, oai_response,
                   items, history_vars, server, call>>

\* iter(iterator) and the first next() on it
Iterate(i) ==
    /\ Quiescent
    /\ pc[i] \in {"ready", "done", "raised"}
    /\ pc' = [pc EXCEPT ![i] = "running"]
    /\ raised' = [raised EXCEPT ![i] = NoResult]
    /\ UNCHANGED <<scythe, harvest_vars, cls, params, verb, ignore_deleted, oai_response,
                   resumption_token, items, history_vars, server, call>>

\* a generator that goes on without `self.oai_response = None`
ResumeKeeping(i) ==
    /\ Quiescent
    /\ pc[i] = "suspended"
    /\ pc' = [pc EXCEPT ![i] = "running"]
    /\ UNCHANGED <<scythe, harvest_vars, cls, params, verb, ignore_deleted, oai_response,
                   resumption_token, items, raised, history_vars, server, call>>

\* next() on a generator suspended at its yield; OAIResponseIterator goes on
\* with `self.oai_response = None`
Resume(i) ==
    /\ Quiescent
    /\ pc[i] = "suspended"
    /\ pc' = [pc EXCEPT ![i] = "running"]
    /\ oai_response' = [oai_response EXCEPT ![i] = IF cls[i] = "OAIResponseIterator"
                                                   THEN NoneObject ELSE @]
    /\ UNCHANGED <<scythe, harvest_vars, cls, params, verb, ignore_deleted, resumption_token,
                   items, raised, history_vars, server, call>>

(***************************************************************************)
(* OAIResponseIterator.__iter__                                            *)
(***************************************************************************)
\* the generator of iterator i yields value
Yield(i, value) ==
    /\ yielded' = [yielded EXCEPT ![i] = Append(@, value)]
    /\ n_yielded' = [n_yielded EXCEPT ![i] = @ + 1]
    /\ trace' = IF server.replay THEN [trace EXCEPT ![i] = Append(@, Item(value))] ELSE trace

\* a yielded response, known by the request it answers
ResponseId(response) == [seq |-> response.seq, error |-> IsObject(response.xml.error)]

ResponseYield(i) ==
    /\ pc[i] = "running" /\ cls[i] = "OAIResponseIterator"
    /\ IsObject(oai_response[i])
    /\ Yield(i, ResponseId(oai_response[i]))
    /\ pc' = [pc EXCEPT ![i] = "suspended"]
    /\ UNCHANGED <<scythe, harvest_vars, cls, params, verb, ignore_deleted, oai_response,
                   resumption_token, items, raised, query0, nreq, sent, n_pages, last_token,
                   fetched, n_fetched, n_deleted, server, call>>

ResponseFetch(i) ==
    /\ pc[i] = "running" /\ cls[i] = "OAIResponseIterator"
    /\ ~IsObject(oai_response[i])
    /\ HasToken(resumption_token[i])
    /\ CallNextResponse(i)
    /\ pc' = [pc EXCEPT ![i] = "fetch"]
    /\ UNCHANGED <<scythe, cls, verb, ignore_deleted, oai_response, resumption_token, items,
                   raised, query0, sent, n_pages, last_token, n_fetched, n_deleted, n_yielded,
                   trace, server, call>>

\* a generator that returns after a response, token or not
ResponseReturnEarly(i) ==
    /\ pc[i] = "running" /\ cls[i] = "OAIResponseIterator"
    /\ ~IsObject(oai_response[i])
    /\ pc' = [pc EXCEPT ![i] = "done"]
    /\ UNCHANGED <<scythe, harvest_vars, cls, params, verb, ignore_deleted, oai_response,
                   resumption_token, items, raised, history_vars, server, call>>

ResponseReturn(i) ==
    /\ pc[i] = "running" /\ cls[i] = "OAIResponseIterator"
    /\ ~IsObject(oai_response[i])
    /\ ~HasToken(resumption_token[i])
    /\ pc' = [pc EXCEPT ![i] = "done"]
    /\ UNCHANGED <<scythe, harvest_vars, cls, params, verb, ignore_deleted, oai_response,
                   resumption_token, items, raised, history_vars, server, call>>

(***************************************************************************)
(* OAIItemIterator.__iter__                                                *)
(***************************************************************************)
\* a test of mapped.deleted alone
SkipsDeletedAlways(i) == Mapped(verb[i], Head(items[i])).deleted

\* `self.ignore_deleted and mapped.deleted` for the next element
SkipsDeleted(i) == ignore_deleted[i] /\ Mapped(verb[i], Head(items[i])).deleted

ItemYield(i) ==
    /\ pc[i] = "running" /\ cls[i] = "OAIItemIterator"
    /\ items[i] # <<>>
    /\ ~SkipsDeleted(i)
    /\ items' = [items EXCEPT ![i] = Tail(@)]
    /\ Yield(i, Mapped(verb[i], Head(items[i])))
    /\ pc' = [pc EXCEPT ![i] = "suspended"]
    /\ UNCHANGED <<scythe, harvest_vars, cls, params, verb, ignore_deleted, oai_response,
                   resumption_token, raised, query0, nreq, sent, n_pages, last_token,
                   fetched, n_fetched, n_deleted, server, call>>

\* a loop that breaks at a deleted item where the code continues
ItemSkipBreak(i) ==
    /\ pc[i] = "running" /\ cls[i] = "OAIItemIterator"
    /\ items[i] # <<>>
    /\ SkipsDeleted(i)
    /\ items' = [items EXCEPT ![i] = <<>>]
    /\ UNCHANGED <<scythe, harvest_vars, cls, params, verb, ignore_deleted, oai_response,
                   resumption_token, pc, raised, history_vars, server, call>>

ItemSkip(i) ==
    /\ pc[i] = "running" /\ cls[i] = "OAIItemIterator"
    /\ items[i] # <<>>
    /\ SkipsDeleted(i)
    /\ items' = [items EXCEPT ![i] = Tail(@)]
    /\ UNCHANGED <<scythe, harvest_vars, cls, params, verb, ignore_deleted, oai_response,
                   resumption_token, pc, raised, history_vars, server, call>>

\* a generator that requests the next page while one element is left
ItemFetchAhead(i) ==
    /\ pc[i] = "running" /\ cls[i] = "OAIItemIterator"
    /\ Len(items[i]) <= 1
    /\ HasToken(resumption_token[i])
    /\ CallNextResponse(i)
    /\ pc' = [pc EXCEPT ![i] = "fetch"]
    /\ UNCHANGED <<scythe, cls, verb, ignore_deleted, oai_response, resumption_token, items,
                   raised, query0, sent, n_pages, last_token, n_fetched, n_deleted, n_yielded,
                   trace, server, call>>

ItemFetch(i) ==
    /\ pc[i] = "running" /\ cls[i] = "OAIItemIterator"
    /\ items[i] = <<>>
    /\ HasToken(resumption_token[i])
    /\ CallNextResponse(i)
    /\ pc' = [pc EXCEPT ![i] = "fetch"]
    /\ UNCHANGED <<scythe, cls, verb, ignore_deleted, oai_response, resumption_token, items,
                   raised, query0, sent, n_pages, last_token, n_fetched, n_deleted, n_yielded,
                   trace, server, call>>

\* a generator that returns when the items are exhausted, token or not
ItemReturnExhausted(i) ==
    /\ pc[i] = "running" /\ cls[i] = "OAIItemIterator"
    /\ items[i] = <<>>
    /\ pc' = [pc EXCEPT ![i] = "done"]
    /\ UNCHANGED <<scythe, harvest_vars, cls, params, verb, ignore_deleted, oai_response,
                   resumption_token, items, raised, history_vars, server, call>>

ItemReturn(i) ==
    /\ pc[i] = "running" /\ cls[i] = "OAIItemIterator"
    /\ items[i] = <<>>
    /\ ~HasToken(resumption_token[i])
    /\ pc' = [pc EXCEPT ![i] = "done"]
    /\ UNCHANGED <<scythe, harvest_vars, cls, params, verb, ignore_deleted, oai_response,
                   resumption_token, items, raised, history_vars, server, call>>

IteratorStep(i) ==
    \/ Construct(i) \/ Iterate(i) \/ Resume(i)
    \/ NextResponseHarvestRaised(i) \/ NextResponseError(i) \/ NextResponsePage(i)
    \/ ResponseYield(i) \/ ResponseFetch(i) \/ ResponseReturn(i)
    \/ ItemYield(i) \/ ItemSkip(i) \/ ItemFetch(i) \/ ItemReturn(i)

(***************************************************************************)
(* Initial states.                                                         *)
(***************************************************************************)
NoIterators ==
    /\ cls = [i \in Iters |-> None]
    /\ params = [i \in Iters |-> [verb |-> None]]
    /\ verb = [i \in Iters |-> None]
    /\ ignore_deleted = [i \in Iters |-> FALSE]
    /\ oai_response = [i \in Iters |-> NoneObject]
    /\ resumption_token = [i \in Iters |-> NoneObject]
    /\ items = [i \in Iters |-> <<>>]
    /\ pc = [i \in Iters |-> "none"]
    /\ raised = [i \in Iters |-> NoResult]
    /\ query0 = [i \in Iters |-> [verb |-> None]]
    /\ nreq = [i \in Iters |-> 0]
    /\ sent = [i \in Iters |-> [verb |-> None]]
    /\ n_pages = [i \in Iters |-> 0]
    /\ last_token = [i \in Iters |-> None]
    /\ fetched = [i \in Iters |-> <<>>]
    /\ yielded = [i \in Iters |-> <<>>]
    /\ n_fetched = [i \in Iters |-> 0]
    /\ n_deleted = [i \in Iters |-> 0]
    /\ n_yielded = [i \in Iters |-> 0]
    /\ trace = [i \in Iters |-> <<>>]

\* no method of Scythe has been called
NoCall == [method |-> None, query |-> [verb |-> None], ignore_deleted |-> FALSE,
           warned |-> <<>>, at |-> "none", result |-> NoResult]

NoCalls == call = [c \in Callers |-> NoCall]

NoHarvest ==
    /\ hpc = "idle"
    /\ caller = DirectCall
    /\ query = [verb |-> None]
    /\ http_response = NoneObject
    /\ loop_i = 0
    /\ retry_after = 0
    /\ hresult = NoResult
    /\ http_log = <<>>
    /\ sleeps = <<>>
    /\ warnings = <<>>
    /\ transport = <<>>

HarvestIdle == NoHarvest /\ log = <<>>

\* a Scythe with any retry configuration, used by client code alone
InitHarvest ==
    /\ \E h \in HttpMethods, m \in 0..MaxRetries, codes \in RetryStatusCodesArgs,
          d \in DefaultRetryAfterArgs, e \in EncodingArgs :
         scythe = ScytheInit(h, "OAIItemIterator", m, codes, d, e)
    /\ HarvestIdle
    /\ NoIterators
    /\ NoCalls
    /\ server = [error_codes |-> {}, failures |-> Failures, failure_bodies |-> {NoBody},
                 tokens |-> {NoneObject}, max_items |-> 0, replay |-> FALSE,
                 encodings |-> {"utf-8", "iso-8859-1"}]

NextHarvest == Harvest \/ HarvestStep \/ HarvestReturn

SpecHarvest == InitHarvest /\ [][NextHarvest]_vars

\* a server that answers with pages of elements, with two of the error
\* codes, or with a 422 or 503 status
PagingServer ==
    [ error_codes |-> {S("b", "adResumptionToken"), S("x", "yz")},
      failures    |-> { f \in Failures : f.status_code \in {422, SERVICE_UNAVAILABLE} /\
                         (f.status_code = 422 => f.retry_after = NoneObject) },
      failure_bodies |-> {NoBody},
      tokens      |-> TokenElements,
      max_items   |-> MaxItems,
      replay      |-> FALSE,
      encodings   |-> {"utf-8"} ]

\* the same server when its pages hold no matching element
TokenServer == [PagingServer EXCEPT !.max_items = 0]

\* a server that answers with empty pages or with any error code
ErrorServer ==
    [ error_codes |-> ErrorCodes, failures |-> {}, failure_bodies |-> {NoBody},
      tokens |-> TokenElements, max_items |-> 0, replay |-> FALSE,
      encodings |-> {"utf-8"} ]

\* a Scythe that retries at most once on 503, and one iterator on it: the
\* item iterator reads the elements of the pages, the response iterator does
\* not
Init ==
    /\ \/ /\ \E m \in {0, 1} : scythe = ScytheInit("GET", "OAIItemIterator", m, NoneObject, 60, None)
          /\ server = PagingServer
       \/ /\ \E m \in {0, 1} : scythe = ScytheInit("GET", "OAIResponseIterator", m, NoneObject, 60, None)
          /\ server = TokenServer
       \/ /\ \E c \in IteratorClasses : scythe = ScytheInit("GET", c, 0, NoneObject, 60, None)
          /\ server = ErrorServer
    /\ HarvestIdle
    /\ NoIterators
    /\ NoCalls

Next == HarvestStep \/ IteratorStep(1)

Spec == Init /\ [][Next]_vars

\* a server that answers with pages only, with one token or none, and
\* answers both iterators alike
ReplayServer ==
    [ error_codes |-> {}, failures |-> {}, failure_bodies |-> {NoBody},
      tokens |-> {NoneObject, [text |-> "tokA"]}, max_items |-> MaxItems, replay |-> TRUE,
      encodings |-> {"utf-8"} ]

\* two runs of the same query against the same pages: iterator 1 keeps the
\* deleted items and runs first, iterator 2 ignores them
InitPair ==
    /\ scythe = ScytheInit("GET", "OAIItemIterator", 0, NoneObject, 60, None)
    /\ HarvestIdle
    /\ NoIterators
    /\ NoCalls
    /\ server = ReplayServer

Turn(i) == IF i = 1 THEN pc[2] = "none" ELSE pc[1] = "done"

PairConstruct(i) ==
    /\ Construct(i)
    /\ cls'[i] = "OAIItemIterator"
    /\ ignore_deleted'[i] = (i = 2)
    /\ TRUE \in IgnoreDeletedArgs(query0'[i])
    /\ i = 2 => query0'[2] = query0[1]

PairStep(i) ==
    /\ Turn(i)
    /\ \/ PairConstruct(i) \/ Iterate(i) \/ Resume(i) \/ NextResponsePage(i)
       \/ ItemYield(i) \/ ItemSkip(i) \/ ItemFetch(i) \/ ItemReturn(i)

NextPair == Request \/ HarvestEnd \/ PairStep(1) \/ PairStep(2)

SpecPair == InitPair /\ [][NextPair]_vars

\* a server that answers with pages of at most one element and with one of
\* two tokens or none, and answers both iterators alike
InterleavedServer ==
    [ error_codes |-> {}, failures |-> {}, failure_bodies |-> {NoBody},
      tokens |-> {NoneObject, [text |-> "tokA"], [text |-> "tokB"]}, max_items |-> 1,
      replay |-> TRUE, encodings |-> {"utf-8"} ]

\* two item iterators on one Scythe, advanced by client code in any order
InitInterleaved ==
    /\ scythe = ScytheInit("GET", "OAIItemIterator", 0, NoneObject, 60, None)
    /\ HarvestIdle
    /\ NoIterators
    /\ NoCalls
    /\ server = InterleavedServer

\* client code constructs iterator 1, and at any time after that iterator 2
\* with the same arguments
InterleavedConstruct(i) ==
    /\ Construct(i)
    /\ i = 2 => /\ pc[1] # "none"
                /\ query0'[2] = query0[1]
                /\ ignore_deleted'[2] = ignore_deleted[1]

InterleavedStep(i) ==
    \/ InterleavedConstruct(i) \/ Iterate(i) \/ Resume(i) \/ NextResponsePage(i)
    \/ ItemYield(i) \/ ItemSkip(i) \/ ItemFetch(i) \/ ItemReturn(i)

NextInterleaved == Request \/ HarvestEnd \/ InterleavedStep(1) \/ InterleavedStep(2)

SpecInterleaved == InitInterleaved /\ [][NextInterleaved]_vars

(***************************************************************************)
(* utils.py: the queries the methods of Scythe build                       *)
(***************************************************************************)
\* a remove_none_values that keeps every key
remove_no_values(d) == d

\* remove_none_values: a new dictionary of the keys whose value is not None
remove_none_values(d) == [k \in {x \in DOMAIN d : d[x] # None} |-> d[k]]

allowed_keys == {"verb", "resumptionToken"}

\* the keys that have a value and are not allowed beside a token
non_empty_keys(d) == {k \in DOMAIN d : d[k] # None /\ k \notin allowed_keys}

resumption_token_present(d) == d["resumptionToken"] # None

\* the test of filter_dict_except_resumption_token:
\* `if resumption_token_present and resumption_token_present`
FilterDrops(d) == resumption_token_present(d) /\ resumption_token_present(d)

\* a filter that returns its input
filter_dict_unfiltered(d) == d

\* filter_dict_except_resumption_token: what it returns
filter_dict_except_resumption_token(d) ==
    IF FilterDrops(d) THEN [k \in DOMAIN d \cap allowed_keys |-> d[k]] ELSE d

\* filter_dict_except_resumption_token: the warnings it logs, each with the
\* keys it names
FilterWarnings(d) == IF FilterDrops(d) THEN <<non_empty_keys(d)>> ELSE <<>>

(***************************************************************************)
(* The methods of Scythe that client code calls.                           *)
(***************************************************************************)
\* the generator functions
ListMethods == {"list_records", "list_identifiers", "list_sets", "list_metadata_formats"}

\* the methods that filter their query for a resumption token
FilteringMethods == {"list_records", "list_identifiers", "list_sets"}

\* the values client code passes
FromArgs == {None, "2024-01-01"}
ResumptionTokenArgs == {None, "", "tok0"}
IdentifierArgs == {None, "oai:1"}

\* the _query (or query) dictionary each method builds from its arguments
MethodQueries(method) ==
    CASE method = "list_records" ->
           [verb : {"ListRecords"}, from : FromArgs, until : {None}, metadataPrefix : {"oai_dc"},
            set : {None}, resumptionToken : ResumptionTokenArgs]
      [] method = "list_identifiers" ->
           [verb : {"ListIdentifiers"}, from : FromArgs, until : {None},
            metadataPrefix : {"oai_dc"}, set : {None}, resumptionToken : ResumptionTokenArgs]
      [] method = "list_sets" ->
           [verb : {"ListSets"}, resumptionToken : ResumptionTokenArgs]
      [] method = "list_metadata_formats" ->
           [verb : {"ListMetadataFormats"}, identifier : IdentifierArgs]
      [] method = "get_record" ->
           [verb : {"GetRecord"}, identifier : {"oai:1"}, metadataPrefix : {"oai_dc"}]
      [] method = "identify" ->
           [verb : {"Identify"}]

\* the ignore_deleted argument of each method
MethodIgnoreDeleted(method) ==
    IF method \in {"list_records", "list_identifiers"} THEN BOOLEAN ELSE {FALSE}

\* the query the method hands to the iterator
MethodQuery(method, q) ==
    IF method \in FilteringMethods
    THEN remove_none_values(filter_dict_except_resumption_token(q))
    ELSE IF method = "list_metadata_formats" THEN remove_none_values(q) ELSE q

\* the warnings the method logs while it builds that query
MethodWarnings(method, q) ==
    IF method \in FilteringMethods THEN FilterWarnings(q) ELSE <<>>

\* client code has called no method yet
NothingCalled == \A c \in Callers : call[c].method = None

\* a method that constructs the iterator when it is called
ListCallEager(i) ==
    /\ Quiescent /\ NothingCalled
    /\ pc[i] = "none"
    /\ \E method \in ListMethods :
       \E q \in MethodQueries(method) :
       \E ign \in MethodIgnoreDeleted(method) :
         /\ call' = [call EXCEPT ![i] = [NoCall EXCEPT !.method = method, !.query = q,
                                                      !.ignore_deleted = ign, !.at = "running",
                                                      !.warned = MethodWarnings(method, q)]]
         /\ ConstructWith(i, MethodQuery(method, q), ign)

\* client code calls a generator function: a generator object results, and
\* nothing of the function's body has run
ListCall(i) ==
    /\ Quiescent /\ NothingCalled
    /\ pc[i] = "none"
    /\ \E method \in ListMethods :
       \E q \in MethodQueries(method) :
       \E ign \in MethodIgnoreDeleted(method) :
         call' = [call EXCEPT ![i] = [NoCall EXCEPT !.method = method, !.query = q,
                                                    !.ignore_deleted = ign, !.at = "created"]]
    /\ UNCHANGED <<scythe, harvest_vars, iter_vars, server>>

\* the first next() on the generator: the body runs up to the call of
\* harvest in the constructor of the iterator
ListNext(i) ==
    /\ Quiescent
    /\ call[i].at = "created"
    /\ ConstructWith(i, MethodQuery(call[i].method, call[i].query), call[i].ignore_deleted)
    /\ call' = [call EXCEPT ![i].at = "running",
                            ![i].warned = MethodWarnings(call[i].method, call[i].query)]

\* `yield from` the iterator the constructor returned
ListIterate(i) ==
    /\ pc[i] = "ready"
    /\ Iterate(i)

\* next() on the generator, suspended at a yield of the iterator
ListResume(i) ==
    /\ call[i].method \in ListMethods
    /\ Resume(i)

\* get_record: the constructor of the iterator, called at once
GetRecord(i) ==
    /\ Quiescent /\ NothingCalled
    /\ pc[i] = "none"
    /\ \E q \in MethodQueries("get_record") :
         /\ call' = [call EXCEPT ![i] = [NoCall EXCEPT !.method = "get_record", !.query = q,
                                                      !.at = "running"]]
         /\ ConstructWith(i, MethodQuery("get_record", q), FALSE)

StopIteration == S("S", "topIteration")

\* a get_record that consumes the page and returns what was yielded last
GetRecordResultLast(i) ==
    CASE pc[i] \in {"failed", "raised"} -> raised[i]
      [] pc[i] = "suspended" ->
           Returned(IF cls[i] = "OAIItemIterator"
                    THEN Mapped(verb[i], fetched[i][Len(fetched[i])])
                    ELSE yielded[i][Len(yielded[i])])
      [] pc[i] = "done" -> Raised(StopIteration, None, 0)

\* get_record: how `next(iter(...))` ends once the iterator has raised,
\* yielded or returned
GetRecordResult(i) ==
    CASE pc[i] \in {"failed", "raised"} -> raised[i]
      [] pc[i] = "suspended" -> Returned(yielded[i][Len(yielded[i])])
      [] pc[i] = "done" -> Raised(StopIteration, None, 0)

GetRecordEnd(i) ==
    /\ call[i].method = "get_record" /\ call[i].at = "running"
    /\ pc[i] \in {"failed", "raised", "suspended", "done"}
    /\ call' = [call EXCEPT ![i].at = "over", ![i].result = GetRecordResult(i)]
    /\ UNCHANGED <<scythe, harvest_vars, iter_vars, server>>

\* identify: the call of harvest
Identify ==
    /\ Quiescent /\ NothingCalled
    /\ \E q \in MethodQueries("identify") :
         /\ call' = [call EXCEPT ![DirectCall] = [NoCall EXCEPT !.method = "identify",
                                                               !.query = q, !.at = "running"]]
         /\ EnterHarvest(DirectCall, q)
    /\ UNCHANGED <<scythe, iter_vars, server>>

ValueError_NotFound == "Identify element not found in the XML."

\* Identify.__init__ on the response of harvest: ValueError when the
\* document has no Identify element
IdentifyInit(response) ==
    IF response.xml.elements = <<>>
    THEN Raised(ValueError, ValueError_NotFound, 0)
    ELSE Returned(response.xml.elements[1])

\* identify: harvest is over, and Identify(...) is built from its response
IdentifyEnd ==
    /\ hpc = "exit" /\ caller = DirectCall
    /\ call[DirectCall].method = "identify" /\ call[DirectCall].at = "running"
    /\ call' = [call EXCEPT ![DirectCall].at = "over",
                            ![DirectCall].result = IF hresult.kind = "raise" THEN hresult
                                                   ELSE IdentifyInit(hresult.response)]
    /\ LeaveHarvest
    /\ UNCHANGED <<scythe, iter_vars, server>>

ClientStep(i) ==
    \/ ListCall(i) \/ ListNext(i) \/ ListIterate(i) \/ ListResume(i)
    \/ GetRecord(i) \/ GetRecordEnd(i)
    \/ NextResponseHarvestRaised(i) \/ NextResponseError(i) \/ NextResponsePage(i)
    \/ ResponseYield(i) \/ ResponseFetch(i) \/ ResponseReturn(i)
    \/ ItemYield(i) \/ ItemSkip(i) \/ ItemFetch(i) \/ ItemReturn(i)

\* a server that answers with pages of elements, with an error document, or
\* with a 422 status whose body may be an error document
ClientServer ==
    [ error_codes    |-> {S("n", "oRecordsMatch"), S("i", "dDoesNotExist")},
      failures       |-> {[status_code |-> 422, retry_after |-> NoneObject]},
      failure_bodies |-> {NoBody} \cup
                         [error : [code : {S("n", "oSetHierarchy")}, text : {"message"}],
                          token : {NoneObject}, elements : {<<>>}],
      tokens         |-> {NoneObject, [text |-> "tokA"]},
      max_items      |-> MaxItems,
      replay         |-> FALSE,
      encodings      |-> {"utf-8"} ]

\* a Scythe that never retries, and client code that calls one method of it
InitClient ==
    /\ \E c \in IteratorClasses : scythe = ScytheInit("GET", c, 0, NoneObject, 60, None)
    /\ server = ClientServer
    /\ HarvestIdle
    /\ NoIterators
    /\ NoCalls

NextClient == Request \/ HarvestEnd \/ ClientStep(1) \/ Identify \/ IdentifyEnd

SpecClient == InitClient /\ [][NextClient]_vars

(***************************************************************************)
(* Scythe.__init__: the checks of its arguments                            *)
(***************************************************************************)
\* the arguments client code passes: protocol_version is an argument of the
\* Scythe of scythe.py; the Scythe of client.py has none, which is the case
\* "2.0" here
HttpMethodArgs == HttpMethods \cup {"DELETE"}
ProtocolVersionArgs == {"2.0", "1.0", "3.0"}

\* the iterator argument: a subclass of BaseOAIIterator, a class that is
\* none, or no class at all
IteratorArgs == IteratorClasses \cup {"dict", None}

ValueError_HttpMethod == "Invalid HTTP method: %s! Must be GET or POST."
ValueError_ProtocolVersion == "Invalid protocol version: %s! Must be 1.0 or 2.0."
TypeError_Iterator == "Argument 'iterator' must be subclass of BaseOAIIterator"

\* a constructor that takes any iterator argument
InitRaisesForMethod(http_method, protocol_version, iterator) ==
    IF http_method \notin {"GET", "POST"}
    THEN Raised(ValueError, ValueError_HttpMethod, 0)
    ELSE NoResult

\* the exception that leaves the constructor for these arguments, NoResult
\* when there is none: the checks in the order of the code
InitRaises(http_method, protocol_version, iterator) ==
    IF http_method \notin {"GET", "POST"}
    THEN Raised(ValueError, ValueError_HttpMethod, 0)
    ELSE IF protocol_version \notin {"2.0", "1.0"}
         THEN Raised(ValueError, ValueError_ProtocolVersion, 0)
         ELSE IF iterator \in IteratorClasses
              THEN NoResult
              ELSE Raised(TypeError, TypeError_Iterator, 0)

\* client code calls Scythe(endpoint, http_method=h, protocol_version=v,
\* iterator=it, max_retries=m, retry_status_codes=codes): the object results
\* unless a check raises
ScytheNew ==
    /\ scythe = NoneObject
    /\ call[DirectCall].method = None
    /\ \E h \in HttpMethodArgs, v \in ProtocolVersionArgs, it \in IteratorArgs, m \in {0, 1},
          codes \in RetryStatusCodesArgs :
         /\ scythe' = IF InitRaises(h, v, it) = NoResult
                       THEN ScytheInit(h, it, m, codes, 60, None)
                       ELSE scythe
         /\ call' = [call EXCEPT ![DirectCall] =
                        [NoCall EXCEPT !.method = "__init__",
                                       !.query = [http_method |-> h, protocol_version |-> v,
                                                  iterator |-> it,
                                                  retry_status_codes |-> codes],
                                       !.at = "over",
                                       !.result = InitRaises(h, v, it)]]
    /\ UNCHANGED <<harvest_vars, iter_vars, server>>

\* client code calls harvest on the object it has
ScytheHarvest ==
    /\ scythe # NoneObject
    /\ Harvest

\* client code that constructs a Scythe and calls harvest on it
InitScythe ==
    /\ scythe = NoneObject
    /\ HarvestIdle
    /\ NoIterators
    /\ NoCalls
    /\ server = [error_codes |-> {}, failures |-> Failures, failure_bodies |-> {NoBody},
                 tokens |-> {NoneObject}, max_items |-> 0, replay |-> FALSE,
                 encodings |-> {"utf-8"}]

NextScythe == ScytheNew \/ ScytheHarvest \/ HarvestStep \/ HarvestReturn

SpecScythe == InitScythe /\ [][NextScythe]_vars

(***************************************************************************)
(* A Scythe in use: harvest calls, close(), and a `with` block             *)
(***************************************************************************)
\* the body of a `with` block is running
InsideWith == call[DirectCall].method = "__enter__" /\ call[DirectCall].at = "inside"

\* client code calls scythe.close()
Close ==
    /\ hpc = "idle"
    /\ scythe' = [scythe EXCEPT !._client = close(@)]
    /\ UNCHANGED <<harvest_vars, iter_vars, server, call>>

\* `with scythe:` (or `with Scythe(...) as scythe:`): __enter__ returns self
Enter ==
    /\ hpc = "idle"
    /\ call[DirectCall].method = None
    /\ call' = [call EXCEPT ![DirectCall] = [NoCall EXCEPT !.method = "__enter__",
                                                          !.at = "inside"]]
    /\ UNCHANGED <<scythe, harvest_vars, iter_vars, server>>

\* __exit__: self.close(); it returns None, so that an exception goes on
Exit(c) == close(c)

\* the body of the block ends: __exit__(None, None, None)
ExitNormally ==
    /\ hpc = "idle"
    /\ InsideWith
    /\ scythe' = [scythe EXCEPT !._client = Exit(@)]
    /\ call' = [call EXCEPT ![DirectCall].at = "over",
                            ![DirectCall].result = [NoResult EXCEPT !.kind = "return"]]
    /\ UNCHANGED <<harvest_vars, iter_vars, server>>

\* harvest raises in the body of the block: __exit__ is called with the
\* exception, which then leaves the `with` statement
ExitRaising ==
    /\ hpc = "exit" /\ caller = DirectCall
    /\ InsideWith
    /\ hresult.kind = "raise"
    /\ scythe' = [scythe EXCEPT !._client = Exit(@)]
    /\ call' = [call EXCEPT ![DirectCall].at = "over", ![DirectCall].result = hresult]
    /\ LeaveHarvest
    /\ UNCHANGED <<iter_vars, server>>

\* harvest returns to client code, or raises outside a block
SessionHarvestReturn ==
    /\ ~(InsideWith /\ hresult.kind = "raise")
    /\ HarvestReturn

\* client code calls harvest, as long as the clients are not used up
SessionHarvest ==
    /\ IF IsOpen(scythe._client) THEN TRUE ELSE ClientsCreated(scythe._client) < MaxClients
    /\ Harvest

\* a Scythe that retries at most once, and client code that calls harvest
\* and close() on it, within a `with` block or without one
InitSession ==
    /\ \E m \in {0, 1} : scythe = ScytheInit("GET", "OAIItemIterator", m, NoneObject, 60, None)
    /\ HarvestIdle
    /\ NoIterators
    /\ NoCalls
    /\ server = [error_codes |-> {},
                 failures |-> {f \in Failures : f.status_code \in {422, SERVICE_UNAVAILABLE}},
                 failure_bodies |-> {NoBody}, tokens |-> {NoneObject}, max_items |-> 0,
                 replay |-> FALSE, encodings |-> {"utf-8"}]

NextSession ==
    \/ SessionHarvest \/ HarvestStep \/ SessionHarvestReturn
    \/ Close \/ Enter \/ ExitNormally \/ ExitRaising

SpecSession == InitSession /\ [][NextSession]_vars

(***************************************************************************)
(* One iterator consumed to its end against a finite chain of pages        *)
(***************************************************************************)
\* a server that answers with the pages it holds, in their order
ChainServer ==
    [ error_codes |-> {}, failures |-> {}, failure_bodies |-> {NoBody},
      tokens |-> TokenElements, max_items |-> MaxItems, replay |-> TRUE,
      encodings |-> {"utf-8"} ]

\* the answer number n of a chain: a page of elements, with a token when
\* another page follows, and without a token or with an empty one when it
\* is the last
ChainPage(n, elements, token) ==
    [status_code |-> 200, retry_after |-> NoneObject,
     body |-> [error |-> NoneObject, token |-> token, elements |-> elements],
     seq |-> n, encoding |-> "utf-8"]

\* the status attributes of the elements of a page of a chain: the page
\* is empty, or it is full, with or without a deleted element at its head
ChainFlags ==
    {<<>>} \cup { [k \in 1..MaxItems |-> IF k <= d THEN "deleted" ELSE None] : d \in {0, 1} }

\* the chains of len pages: the server's answers to the first len requests
Chains(len) ==
    { [n \in 1..len |->
         << ChainPage(n, [k \in 1..Len(flags[n]) |->
                            [page |-> n, pos |-> k, status |-> flags[n][k]]],
                      IF n < len THEN [text |-> "tokA"] ELSE last) >>] :
        flags \in [1..len -> ChainFlags], last \in {NoneObject, [text |-> None]} }

InitChain ==
    /\ \E m \in {0, 1}, c \in IteratorClasses : scythe = ScytheInit("GET", c, m, NoneObject, 60, None)
    /\ server = ChainServer
    /\ NoHarvest
    /\ \E len \in 1..MaxFetches : log \in Chains(len)
    /\ NoIterators
    /\ NoCalls

\* the consumer iterates once
ChainIterate ==
    /\ pc[1] = "ready"
    /\ Iterate(1)

NextChain ==
    \/ Construct(1) \/ ChainIterate \/ Resume(1)
    \/ Request \/ LoopSkip \/ HarvestEnd \/ NextResponsePage(1)
    \/ ResponseYield(1) \/ ResponseFetch(1) \/ ResponseReturn(1)
    \/ ItemYield(1) \/ ItemSkip(1) \/ ItemFetch(1) \/ ItemReturn(1)

\* the code runs on, and the consumer asks for the next value until the
\* sequence is over
SpecChain == InitChain /\ [][NextChain]_vars /\ WF_vars(NextChain)

(***************************************************************************)
(* One iterator against a server that records what it answered              *)
(***************************************************************************)
\* a server that answers with pages of at most one element, with an error
\* code or with a 503 status, and keeps a record of its answers to each
\* harvest call
RecordingServer ==
    [ error_codes |-> {S("b", "adResumptionToken")},
      failures    |-> { f \in Failures : f.status_code = SERVICE_UNAVAILABLE /\
                         f.retry_after # [chars |-> <<"1", "0">>] },
      failure_bodies |-> {NoBody},
      tokens      |-> {NoneObject, [text |-> "tokA"]},
      max_items   |-> 1,
      replay      |-> TRUE,
      encodings   |-> {"utf-8"} ]

InitBudget ==
    /\ \E m \in {0, 1}, c \in IteratorClasses : scythe = ScytheInit("GET", c, m, NoneObject, 60, None)
    /\ server = RecordingServer
    /\ HarvestIdle
    /\ NoIterators
    /\ NoCalls

NextBudget == HarvestStep \/ IteratorStep(1)

SpecBudget == InitBudget /\ [][NextBudget]_vars

(***************************************************************************)
(* Properties.                                                             *)
(***************************************************************************)
\* a transport request is sent on behalf of iterator i in this step
Requests(i) == hpc = "request" /\ hpc' = "loop" /\ caller = i

\* C1: every request an iterator sends after its first page request (the
\* request of the constructor, with its retries) carries exactly verb and
\* resumptionToken: the verb of the initial query and the token of the latest
\* page received; no filter of the initial query is sent again.
C1_FollowUpQuery ==
    [][\A i \in Iters :
          (Requests(i) /\ nreq[i] >= 2) =>
              /\ Truthy(last_token[i])
              /\ sent'[i] = [verb |-> query0[i].verb, resumptionToken |-> last_token[i]]]_vars

C1_Witness ==
    /\ nreq[1] = 2 /\ hpc = "loop" /\ caller = 1
    /\ query0[1] = [verb |-> "ListIdentifiers", metadataPrefix |-> "oai_dc", from |-> "2024-01-01"]
    /\ sent[1] = [verb |-> "ListIdentifiers", resumptionToken |-> "tokB"]

\* the items of the elements es, as the iterator of verb v maps them
MappedSeq(v, es) == [k \in DOMAIN es |-> Mapped(v, es[k])]

NotDeleted(x) == ~x.deleted

\* what iterator i owes its consumer for the latest page
Owed(i) ==
    IF ignore_deleted[i]
    THEN SelectSeq(MappedSeq(verb[i], fetched[i]), NotDeleted)
    ELSE MappedSeq(verb[i], fetched[i])

\* the latest page of iterator i has no resumptionToken element or an empty one
LastPageWithoutToken(i) == n_pages[i] >= 1 /\ ~Truthy(last_token[i])

\* the generator of iterator i has nothing left to yield from the latest page
NothingLeft(i) ==
    IF cls[i] = "OAIItemIterator" THEN items[i] = <<>> ELSE ~IsObject(oai_response[i])

\* iterator i has yielded all that the latest page holds for its consumer
AllYielded(i) ==
    IF cls[i] = "OAIItemIterator" THEN yielded[i] = Owed(i) ELSE Len(yielded[i]) = 1

\* C2: once the latest page has no resumptionToken element, or an empty one,
\* the iterator sends no further request: its generator yields or skips what
\* is left of the page and then returns, having yielded all of it.
C2_EndsWithoutToken ==
    [][\A i \in Iters :
          LastPageWithoutToken(i) =>
              /\ nreq'[i] = nreq[i] /\ sent'[i] = sent[i] /\ pc'[i] # "fetch"
              /\ (pc[i] = "running" /\ pc'[i] # "running") => pc'[i] \in {"suspended", "done"}
              /\ (pc[i] = "running" /\ NothingLeft(i) /\ pc'[i] # pc[i]) => pc'[i] = "done"
              /\ pc'[i] = "done" => AllYielded(i)']_vars

C2_Witness ==
    /\ pc[1] = "done" /\ cls[1] = "OAIItemIterator"
    /\ n_pages[1] = 2 /\ nreq[1] = 2
    /\ oai_response[1].xml.token = [text |-> None]
    /\ Len(yielded[1]) = 2

\* C3: with ignore_deleted false, the item iterator yields the elements of
\* each page once each, in document order, finishes a page before it requests
\* the next, and has yielded as many items as the pages it consumed hold.
C3_AllItemsInOrder ==
    \A i \in Iters :
        (cls[i] = "OAIItemIterator" /\ ~ignore_deleted[i]) =>
            /\ yielded[i] \o MappedSeq(verb[i], items[i]) = MappedSeq(verb[i], fetched[i])
            /\ n_yielded[i] + Len(items[i]) = n_fetched[i]
            /\ pc[i] = "fetch" => items[i] = <<>>

C3_Witness ==
    /\ cls[1] = "OAIItemIterator" /\ ~ignore_deleted[1]
    /\ pc[1] = "done" /\ n_pages[1] = 3
    /\ n_yielded[1] = 5 /\ n_deleted[1] = 2

IsItem(e) == e.item # NoneObject
IsQuery(e) == e.query # NoneObject
KeptItem(e) == IsItem(e) /\ ~e.item.deleted

\* C4: for the same pages, the items yielded with ignore_deleted=True are
\* those yielded with ignore_deleted=False without the deleted ones, in the
\* same order; the counts differ by the number of deleted items on all pages;
\* and both runs send the same queries in the same order.
C4_IgnoreDeletedFilters ==
    (pc[1] = "done" /\ pc[2] = "done") =>
        /\ SelectSeq(trace[2], IsItem) = SelectSeq(trace[1], KeptItem)
        /\ Len(SelectSeq(trace[1], IsItem)) - Len(SelectSeq(trace[2], IsItem)) = n_deleted[1]
        /\ SelectSeq(trace[2], IsQuery) = SelectSeq(trace[1], IsQuery)

C4_Witness ==
    /\ pc[1] = "done" /\ pc[2] = "done"
    /\ n_pages[1] = 2 /\ n_deleted[1] = 2
    /\ Len(SelectSeq(trace[1], IsItem)) = 4
    /\ Len(SelectSeq(trace[2], IsItem)) = 2

\* C5: in item mode, when a page with a non-empty token has yielded nothing
\* (no element, or deleted elements only with ignore_deleted set), the
\* generator goes on with a request for the next page; and the generator
\* returns only when the latest page has no token.
C5_EmptyPageIsNotTheEnd ==
    [][\A i \in Iters :
          cls[i] = "OAIItemIterator" =>
              /\ (/\ pc[i] = "running" /\ items[i] = <<>> /\ yielded[i] = <<>>
                  /\ Truthy(last_token[i]) /\ pc'[i] # pc[i])
                   => (pc'[i] = "fetch" /\ nreq'[i] = nreq[i] + 1)
              /\ pc'[i] = "done" => ~Truthy(last_token'[i])]_vars

C5_Witness ==
    /\ cls[1] = "OAIItemIterator" /\ ignore_deleted[1]
    /\ pc[1] = "fetch" /\ nreq[1] = 2
    /\ n_fetched[1] = 2 /\ n_deleted[1] = 2 /\ n_yielded[1] = 0

\* a status of the 4xx or 5xx class
ErrorStatus(status_code) == status_code \in 400..599

\* the response is one that the Scythe is configured to retry
Retryable(r) == ErrorStatus(r.status_code) /\ r.status_code \in scythe.retry_status_codes

\* C6: when every response is retryable, harvest with max_retries = n ends
\* after n + 1 requests and n sleeps by raising the HTTP error.
C6_RetriesExhausted ==
    (hpc = "exit" /\ \A k \in DOMAIN http_log : Retryable(http_log[k])) =>
        /\ Len(http_log) = scythe.max_retries + 1
        /\ Len(sleeps) = scythe.max_retries
        /\ hresult = Raised(HTTPStatusError, None, http_log[Len(http_log)].status_code)

\* C7: with max_retries = 0 harvest sends one request and never sleeps,
\* whatever the status; an error status raises the HTTP error.
C7_NoRetryByDefault ==
    scythe.max_retries = 0 =>
        /\ Len(http_log) <= 1 /\ sleeps = <<>> /\ hpc # "sleep"
        /\ hpc = "exit" =>
              /\ Len(http_log) = 1
              /\ hresult.kind = IF ErrorStatus(http_log[1].status_code) THEN "raise" ELSE "return"
              /\ ErrorStatus(http_log[1].status_code) =>
                    hresult = Raised(HTTPStatusError, None, http_log[1].status_code)

C7_Witness ==
    /\ scythe.max_retries = 0 /\ hpc = "exit"
    /\ http_log = <<[status_code |-> 503, retry_after |-> [chars |-> <<"1", "0">>]]>>
    /\ hresult.exc = HTTPStatusError

\* C8: a response is followed by another request only if its status is an
\* error status of the retryable set; an error status outside the set ends
\* harvest after one request, without sleep, by the HTTP error of that status.
C8_RetryOnlyRetryable ==
    /\ \A k \in 1..(Len(http_log) - 1) : Retryable(http_log[k])
    /\ hpc = "sleep" => Retryable(http_log[Len(http_log)])
    /\ (hpc = "exit" /\ ErrorStatus(http_log[1].status_code) /\ ~Retryable(http_log[1])) =>
          /\ Len(http_log) = 1 /\ sleeps = <<>>
          /\ hresult = Raised(HTTPStatusError, None, http_log[1].status_code)

C8_Witness ==
    /\ scythe.max_retries = 1 /\ hpc = "exit"
    /\ http_log = <<[status_code |-> 422, retry_after |-> NoneObject]>>
    /\ hresult = Raised(HTTPStatusError, None, 422)

\* the seconds a retry-after header names
HeaderSeconds(h) == CASE h = [chars |-> <<"1", "0">>] -> 10 [] OTHER -> -1

\* C9: the k-th sleep of a harvest call lasts as long as the retry-after
\* header of the k-th response says when that response is a 503 with the
\* header, and default_retry_after otherwise.
C9_WaitBeforeRetry ==
    /\ Len(sleeps) <= Len(http_log)
    /\ \A k \in DOMAIN sleeps :
          sleeps[k] = IF http_log[k].status_code = 503 /\ http_log[k].retry_after # NoneObject
                      THEN HeaderSeconds(http_log[k].retry_after)
                      ELSE scythe.default_retry_after

C9_Witness ==
    /\ scythe.default_retry_after = 0
    /\ sleeps = <<10, 0>>
    /\ http_log[2] = [status_code |-> 500, retry_after |-> [chars |-> <<"1", "0">>]]

\* the exception class of each code of the taxonomy
TaxonomyException(code) ==
    CASE code = S("b", "adArgument") -> S("B", "adArgument")
      [] code = S("b", "adVerb") -> S("B", "adVerb")
      [] code = S("b", "adResumptionToken") -> S("B", "adResumptionToken")
      [] code = S("c", "annotDisseminateFormat") -> S("C", "annotDisseminateFormat")
      [] code = S("i", "dDoesNotExist") -> S("I", "dDoesNotExist")
      [] code = S("n", "oSetHierarchy") -> S("N", "oSetHierarchy")
      [] code = S("n", "oMetadataFormat") -> S("N", "oMetadataFormat")
      [] code = S("n", "oRecordsMatch") -> S("N", "oRecordsMatch")

\* C10: a response whose error element has one of the eight codes of the
\* taxonomy makes _next_response raise the exception named like the code with
\* its first letter in upper case, with the text of the element as message.
C10_TaxonomyErrors ==
    [][\A i \in Iters :
          (/\ hpc = "exit" /\ hpc' = "idle" /\ caller = i /\ hresult.kind = "return"
           /\ IsObject(hresult.response.xml.error)
           /\ hresult.response.xml.error.code \in TaxonomyCodes)
            => /\ pc'[i] \in {"failed", "raised"}
               /\ raised'[i].kind = "raise"
               /\ raised'[i].exc \in ExceptionClasses
               /\ raised'[i].exc = TaxonomyException(hresult.response.xml.error.code)
               /\ raised'[i].msg = IF hresult.response.xml.error.text = None THEN ""
                                   ELSE hresult.response.xml.error.text]_vars

C10_Witness ==
    /\ pc[1] = "raised" /\ nreq[1] = 2
    /\ raised[1] = Raised(NoMetadataFormat, "message", 0)
    /\ oai_response[1].xml.error = [code |-> S("n", "oMetadataFormat"), text |-> "message"]

\* harvest returns to _next_response of iterator i in this step, with a
\* response that holds an error element
DecodesError(i) ==
    /\ hpc = "exit" /\ hpc' = "idle" /\ caller = i /\ hresult.kind = "return"
    /\ IsObject(hresult.response.xml.error)

\* the message an exception for the error element carries: its text, or ""
Description(error) == IF error.text = None THEN "" ELSE error.text

\* C11: a response whose error element has a code outside the taxonomy (any
\* other string, or no code attribute) makes _next_response raise
\* GeneralOAIPMHError with the text of the element as message; no exception of
\* another class leaves the decoding of the error.
C11_CatchAllError ==
    [][\A i \in Iters :
          (DecodesError(i) /\ hresult.response.xml.error.code \notin TaxonomyCodes)
            => /\ pc'[i] \in {"failed", "raised"}
               /\ raised'[i] = Raised(GeneralOAIPMHError,
                                      Description(hresult.response.xml.error), 0)]_vars

\* the answer to the first harvest call of iterator i is decoded in this step
DecodesFirstError(i) == DecodesError(i) /\ nreq[i] = 1

C14_ConstructorFetchesFirstPage ==
    [][\A i \in Iters :
          /\ (pc[i] = "none" /\ pc'[i] # "none")
               => /\ pc'[i] = "ctor" /\ nreq'[i] = 1
                  /\ hpc' = "request" /\ caller' = i /\ query' = query0'[i]
          /\ pc[i] = "ctor"
               => /\ nreq'[i] = 1 /\ n_yielded'[i] = 0
                  /\ pc'[i] \in {"ctor", "ready", "failed"}
          /\ (pc[i] = "ctor" /\ pc'[i] = "ready")
               => /\ hpc = "exit" /\ hresult.kind = "return" /\ n_pages'[i] = 1
          /\ (pc[i] = "ctor" /\ DecodesError(i))
               => /\ pc'[i] = "failed" /\ raised'[i].kind = "raise"
          /\ pc[i] = "failed" => pc'[i] = "failed"]_vars

C14_Witness ==
    /\ cls[1] = "OAIResponseIterator" /\ pc[1] = "failed" /\ nreq[1] = 1
    /\ raised[1] = Raised(CannotDisseminateFormat, "message", 0)

\* a page fetch of iterator i has raised: it has called harvest more often
\* than it has received pages, and no call is under way
FetchHasRaised(i) == nreq[i] > n_pages[i] /\ pc[i] \notin {"ctor", "fetch"}

\* C15: once a page fetch of an iterator has raised, that iterator yields
\* nothing more and sends no further request, whatever the caller does with it.
C15_RaiseIsTerminal ==
    [][\A i \in Iters :
          FetchHasRaised(i) =>
              /\ nreq'[i] = nreq[i] /\ n_yielded'[i] = n_yielded[i]
              /\ pc'[i] \notin {"fetch", "suspended"}]_vars

\* harvest returns to identify in this step
IdentifyReturns ==
    /\ hpc = "exit" /\ hpc' = "idle" /\ caller = DirectCall
    /\ call[DirectCall].method = "identify"

\* C16: identify() calls harvest once, with the query {verb: Identify},
\* within the call; when the response holds an error element, the call
\* raises the exception of the taxonomy for the code of that element.
C16_IdentifyIsEager ==
    [][/\ (call[DirectCall].at = "none" /\ call'[DirectCall].method = "identify")
            => /\ hpc' = "request" /\ caller' = DirectCall
               /\ query' = [verb |-> "Identify"]
               /\ call'[DirectCall].at = "running"
       /\ IdentifyReturns
            => /\ Len(http_log) = 1
               /\ call'[DirectCall].at = "over"
       /\ call[DirectCall].at = "over" => (hpc' = "idle" /\ UNCHANGED call)
       /\ (IdentifyReturns /\ hresult.kind = "return" /\ IsObject(hresult.response.xml.error))
            => call'[DirectCall].result =
                  Raised(TaxonomyException(hresult.response.xml.error.code),
                         Description(hresult.response.xml.error), 0)]_vars

\* get_record of iterator slot i is over in this step
GetRecordReturns(i) ==
    /\ call[i].method = "get_record"
    /\ call[i].at = "running" /\ call'[i].at = "over"

ClientErrorWithErrorBody ==
    /\ http_response # NoneObject
    /\ http_response.status_code \in 400..499
    /\ IsObject(http_response.body.error)

\* C18: a response of a 4xx status whose body holds an error element reaches
\* the caller as the exception of the taxonomy for the code of the element,
\* and never as the HTTP status error.
C18_ErrorBodyExplainsStatus ==
    [][\A i \in Iters :
          (hpc = "exit" /\ hpc' = "idle" /\ caller = i /\ ClientErrorWithErrorBody)
            => /\ raised'[i] = Raised(TaxonomyException(http_response.body.error.code),
                                      Description(http_response.body.error), 0)
               /\ raised'[i].exc # HTTPStatusError]_vars

\* the filters of a _query that have a value
GivenFilters(q) == {k \in DOMAIN q \cap {"from", "until", "set", "metadataPrefix"} : q[k] # None}

\* C19: when list_records, list_identifiers or list_sets is called with a
\* resumption_token and some other filter that is not None, the request sent
\* holds verb and resumptionToken and nothing else.
C19_TokenDropsFilters ==
    [][\A i \in Iters :
          (/\ Requests(i) /\ nreq[i] = 1
           /\ call[i].method \in {"list_records", "list_identifiers", "list_sets"}
           /\ call[i].query["resumptionToken"] # None
           /\ GivenFilters(call[i].query) # {})
            => /\ DOMAIN sent'[i] = {"verb", "resumptionToken"}
               /\ sent'[i]["verb"] = call[i].query["verb"]
               /\ sent'[i]["resumptionToken"] = call[i].query["resumptionToken"]]_vars

C19_Witness ==
    /\ call[1].method = "list_identifiers" /\ call[1].query["from"] = "2024-01-01"
    /\ call[1].query["metadataPrefix"] = "oai_dc"
    /\ nreq[1] = 1 /\ hpc = "loop"
    /\ sent[1] = [verb |-> "ListIdentifiers", resumptionToken |-> "tok0"]

\* C20: filter_dict_except_resumption_token logs its warning only for a query
\* whose resumptionToken is not None and that holds another key, besides
\* verb, whose value is not None; a query of verb and resumptionToken alone
\* gives no warning.
C20_WarningOnlyWhenDropping ==
    \A i \in Iters :
        (call[i].method \in FilteringMethods /\ call[i].warned # <<>>) =>
            /\ call[i].query["resumptionToken"] # None
            /\ \E k \in DOMAIN call[i].query \ {"verb", "resumptionToken"} :
                  call[i].query[k] # None

\* the query that list_records and list_identifiers owe the server for the
\* _query q: verb, and the filters that have a value
VerbAndGivenFilters(q) == [k \in {"verb"} \cup GivenFilters(q) |-> q[k]]

AllFetchesSucceeded(i) ==
    nreq[i] = n_pages[i] + (IF pc[i] \in {"ctor", "fetch"} THEN 1 ELSE 0)

\* C22: a response iterator whose page requests all succeed yields the
\* response of each page once and in the order of the requests: the k-th
\* value it yields is the response to its k-th page request, it yields the
\* latest page before it requests the next, and when its generator returns
\* it has yielded as many responses as it received pages.
C22_EachResponseOnce ==
    [][\A i \in Iters :
          (cls[i] = "OAIResponseIterator" /\ AllFetchesSucceeded(i)') =>
              /\ n_yielded'[i] \in {n_pages'[i] - 1, n_pages'[i]} \cap Nat
              /\ n_yielded'[i] = n_yielded[i] + 1 =>
                    /\ n_yielded'[i] = n_pages[i]
                    /\ yielded'[i] = <<[seq |-> n_pages[i], error |-> FALSE]>>
              /\ pc'[i] \in {"fetch", "done"} => n_yielded'[i] = n_pages'[i]
              /\ pc'[i] = "done" => n_yielded'[i] = nreq'[i]]_vars

C22_Witness ==
    /\ cls[1] = "OAIResponseIterator" /\ pc[1] = "done"
    /\ nreq[1] = 3 /\ n_pages[1] = 3 /\ n_yielded[1] = 3
    /\ yielded[1] = <<[seq |-> 3, error |-> FALSE]>>

\* the transport call that method owes for the query q
OwedCall(method, q) ==
    CASE method = "GET" -> [method |-> "GET", params |-> q, data |-> NoneObject]
      [] method = "POST" -> [method |-> "POST", params |-> NoneObject, data |-> q]

\* C23: every attempt of a harvest call is one transport call (the first
\* attempt, and one more after every sleep), a GET with the query as params
\* when http_method is GET and a POST with the query as data when it is POST;
\* all attempts of the call use the same method and the query harvest was
\* called with.
C23_OneTransportCallPerAttempt ==
    /\ hpc # "idle" =>
          /\ query \in DirectQueries
          /\ Len(transport) = Len(sleeps) + (IF hpc = "request" THEN 0 ELSE 1)
          /\ Len(transport) = Len(http_log)
    /\ \A k \in DOMAIN transport :
          /\ transport[k] = OwedCall(scythe.http_method, query)
          /\ transport[k] = transport[1]

C23_Witness ==
    /\ scythe.http_method = "POST" /\ hpc = "exit" /\ hresult.kind = "return"
    /\ Len(sleeps) = 2
    /\ transport = [k \in 1..3 |-> [method |-> "POST", params |-> NoneObject,
                                     data |-> [verb |-> "Identify"]]]

\* C24: a constructor called with an http_method other than GET and POST,
\* or with a protocol_version other than 1.0 and 2.0, raises ValueError;
\* called with an iterator that is no subclass of BaseOAIIterator (the other
\* two arguments being valid) it raises TypeError; when it raises, client
\* code has no Scythe and no harvest call or transport call is ever made;
\* with valid arguments the object results.
C24_InvalidArguments ==
    LET new == call[DirectCall]
        args == new.query
    IN  new.method = "__init__" =>
          /\ args.http_method \notin {"GET", "POST"} =>
                (new.result.kind = "raise" /\ new.result.exc = ValueError)
          /\ args.protocol_version \notin {"1.0", "2.0"} =>
                (new.result.kind = "raise" /\ new.result.exc = ValueError)
          /\ (/\ args.iterator \notin {"OAIItemIterator", "OAIResponseIterator"}
              /\ args.http_method \in {"GET", "POST"}
              /\ args.protocol_version \in {"1.0", "2.0"}) =>
                (new.result.kind = "raise" /\ new.result.exc = TypeError)
          /\ new.result.kind = "raise" =>
                /\ scythe = NoneObject
                /\ hpc = "idle" /\ transport = <<>> /\ http_log = <<>>
          /\ (/\ args.iterator \in {"OAIItemIterator", "OAIResponseIterator"}
              /\ args.http_method \in {"GET", "POST"}
              /\ args.protocol_version \in {"1.0", "2.0"}) =>
                (new.result.kind = "none" /\ scythe # NoneObject)

C24_Witness ==
    /\ call[DirectCall].method = "__init__"
    /\ call[DirectCall].query = [http_method |-> "POST", protocol_version |-> "2.0",
                                 iterator |-> None, retry_status_codes |-> NoneObject]
    /\ call[DirectCall].result = Raised(TypeError, TypeError_Iterator, 0)
    /\ scythe = NoneObject

\* C25: for every response harvest holds, get_retry_after returns a number
\* of seconds and raises nothing, and for a 503 whose retry-after header is
\* missing or names no number of seconds it returns default_retry_after.
C25_RetryAfterNeverRaises ==
    http_response # NoneObject =>
        LET result == get_retry_after(http_response)
        IN  /\ result.exc = NoneObject
            /\ result.value \in Nat
            /\ (/\ http_response.status_code = 503
                /\ HeaderSeconds(http_response.retry_after) = -1)
                 => result.value = scythe.default_retry_after

\* C26: a harvest call that ends before max_retries + 1 responses were
\* received ends at a response that is not retryable; a call whose k + 1
\* responses are k retryable errors and then a success has made k + 1
\* requests and k sleeps and returns that last response; and no response
\* but the last of a call is a success.
C26_StopsAtSuccess ==
    hpc = "exit" =>
        LET n == Len(http_log)
        IN  /\ n <= scythe.max_retries => ~Retryable(http_log[n])
            /\ \A k \in 1..(n - 1) : ErrorStatus(http_log[k].status_code)
            /\ ~ErrorStatus(http_log[n].status_code) =>
                  /\ \A k \in 1..(n - 1) : Retryable(http_log[k])
                  /\ Len(transport) = n /\ Len(sleeps) = n - 1
                  /\ hresult = Returned(OAIResponse(http_response))
                  /\ http_response.status_code = http_log[n].status_code

\* the number of values that the pages iterator i has received owe its
\* consumer
OwedInAll(i) ==
    IF cls[i] = "OAIResponseIterator" THEN n_pages[i]
    ELSE n_fetched[i] - (IF ignore_deleted[i] THEN n_deleted[i] ELSE 0)

\* C27: an iterator requests a page only in its constructor and, after
\* that, only while the consumer waits in next() for a value beyond all that
\* the pages received so far hold for it; the transport works for the
\* iterator only within these calls; a response iterator has at no time
\* requested more than one page beyond those it has yielded; and an
\* iterator that was never advanced has made its initial request alone.
C27_NoPrefetch ==
    [][\A i \in Iters :
          /\ nreq'[i] # nreq[i] =>
                /\ nreq'[i] = nreq[i] + 1
                /\ pc[i] \in {"none", "running"}
                /\ pc[i] = "none" => nreq[i] = 0
                /\ pc[i] = "running" => n_yielded[i] >= OwedInAll(i)
          /\ (hpc' # "idle" /\ caller' = i) => pc'[i] \in {"ctor", "fetch"}
          /\ cls'[i] = "OAIResponseIterator" =>
                n_pages'[i] + (IF pc'[i] \in {"ctor", "fetch"} THEN 1 ELSE 0) <= n_yielded'[i] + 1
          /\ pc'[i] \in {"none", "ctor", "ready", "failed"} => nreq'[i] <= 1]_vars

C27_Witness ==
    /\ cls[1] = "OAIItemIterator" /\ ~ignore_deleted[1]
    /\ pc[1] = "fetch" /\ nreq[1] = 3
    /\ n_fetched[1] = 4 /\ n_yielded[1] = 4

\* harvest returns a page to _next_response of iterator i in this step
ReceivesPage(i) ==
    /\ hpc = "exit" /\ hpc' = "idle" /\ caller = i /\ hresult.kind = "return"
    /\ ~IsObject(hresult.response.xml.error)

\* C28: when a page arrives, the token the iterator stores is the one of the
\* resumptionToken element of that page, and None when the page has no such
\* element; the stored token is at all times that of the latest page; and a
\* request sent after a page was received carries the token of the latest
\* page received, never that of a page before it.
C28_OneLiveToken ==
    [][\A i \in Iters :
          /\ ReceivesPage(i) =>
                resumption_token'[i] = IF hresult.response.xml.token = NoneObject
                                       THEN NoneObject
                                       ELSE [token |-> hresult.response.xml.token.text]
          /\ n_pages'[i] >= 1 =>
                IF resumption_token'[i] = NoneObject THEN last_token'[i] = None
                ELSE resumption_token'[i].token = last_token'[i]
          /\ (Requests(i) /\ n_pages[i] >= 1) =>
                /\ "resumptionToken" \in DOMAIN sent'[i]
                /\ sent'[i]["resumptionToken"] = last_token[i]
                /\ resumption_token[i] = [token |-> last_token[i]]]_vars

C28_Witness ==
    /\ n_pages[1] = 2 /\ nreq[1] = 2 /\ hpc = "idle"
    /\ sent[1] = [verb |-> "ListSets", resumptionToken |-> "tokA"]
    /\ resumption_token[1] = [token |-> "tokB"]

\* all that iterator i holds and all that is recorded of it
IteratorState(i) ==
    <<cls[i], params[i], verb[i], ignore_deleted[i], oai_response[i], resumption_token[i],
      items[i], pc[i], raised[i], query0[i], nreq[i], sent[i], n_pages[i], last_token[i],
      fetched[i], yielded[i], n_fetched[i], n_deleted[i], n_yielded[i], trace[i]>>

\* the sequence s is an initial part of the sequence t
IsPrefix(s, t) == Len(s) <= Len(t) /\ s = SubSeq(t, 1, Len(s))

\* C29: of two iterators constructed on one Scythe with the same arguments
\* and advanced in any order against the same pages, each sends the queries
\* and yields the items of a run of its own: a step of one iterator, and a
\* harvest call made for it, leave the other as it is, and the sequences of
\* queries sent and items yielded of the two are the same as far as both
\* have come, and equal when both generators have returned.
C29_IteratorsAreIndependent ==
    [][/\ \A i \in Iters :
             /\ IteratorState(i)' # IteratorState(i) => IteratorState(3 - i)' = IteratorState(3 - i)
             /\ (hpc # "idle" /\ caller = i) => IteratorState(3 - i)' = IteratorState(3 - i)
       /\ IsPrefix(trace'[1], trace'[2]) \/ IsPrefix(trace'[2], trace'[1])
       /\ (pc'[1] = "done" /\ pc'[2] = "done") => trace'[1] = trace'[2]]_vars

C29_Witness ==
    /\ pc[1] = "suspended" /\ nreq[1] = 3 /\ n_yielded[1] = 3
    /\ pc[2] = "suspended" /\ nreq[2] = 2 /\ n_yielded[2] = 2
    /\ resumption_token[1] = [token |-> "tokA"]
    /\ resumption_token[2] = [token |-> "tokB"]

IsRequest == hpc = "request" /\ hpc' = "loop"

\* C31: every transport request is sent on an open client: the one the
\* Scythe had, when it had one and it was open, and a new one, never used
\* before, when it had none or a closed one; and the Scythe never holds a
\* client that it has not created for a request.
C31_RequestsOnOpenClient ==
    [][/\ IsRequest =>
             /\ IsOpen(scythe'._client)
             /\ IsOpen(scythe._client) => scythe'._client = scythe._client
             /\ ~IsOpen(scythe._client) =>
                   scythe'._client.id = ClientsCreated(scythe._client) + 1
       /\ ClientsCreated(scythe'._client) # ClientsCreated(scythe._client) =>
             IsRequest]_vars

C31_Witness ==
    /\ hpc = "loop" /\ Len(transport) = 2
    /\ scythe._client = [id |-> 3, is_closed |-> FALSE]

\* the step leaves the `with` block
LeavesWith == InsideWith /\ call'[DirectCall].at = "over"

\* C32: close() on a Scythe without a client, or with a closed one, changes
\* nothing, and closing twice is closing once; no step but a transport
\* request creates a client or opens one; leaving a `with` block leaves
\* the Scythe without an open client, and when harvest raised in the block,
\* the exception is what the `with` statement raises.
C32_CloseIsIdempotent ==
    [][/\ close(close(scythe._client)) = close(scythe._client)
       /\ ~IsOpen(close(scythe._client))
       /\ ~IsOpen(scythe._client) => close(scythe._client) = scythe._client
       /\ ~IsRequest =>
             /\ ClientsCreated(scythe'._client) = ClientsCreated(scythe._client)
             /\ ~IsOpen(scythe._client) => scythe'._client = scythe._client
       /\ LeavesWith =>
             /\ ~IsOpen(scythe'._client)
             /\ scythe'._client = close(scythe._client)
             /\ hpc = "exit" => /\ hresult.kind = "raise"
                                /\ call'[DirectCall].result = hresult
             /\ hpc # "exit" => call'[DirectCall].result.kind = "return"]_vars

C32_Witness ==
    /\ call[DirectCall].at = "over"
    /\ call[DirectCall].result.kind = "raise"
    /\ scythe._client = [id |-> 2, is_closed |-> TRUE]
    /\ hpc = "idle"

\* C33: in a harvest call the k-th retry comes after the k-th response,
\* which is a retryable error, then one warning that names the status of
\* that response and the wait, then one sleep of that wait, in this order;
\* and when the call ends, the warnings are as many as the sleeps, and one
\* fewer than the requests.
C33_WarnSleepRetry ==
    /\ Len(transport) = Len(http_log)
    /\ hpc = "request" => Len(warnings) = Len(http_log) /\ Len(sleeps) = Len(http_log)
    /\ hpc = "loop" => Len(warnings) = Len(http_log) - 1 /\ Len(sleeps) = Len(http_log) - 1
    /\ hpc = "sleep" => Len(warnings) = Len(http_log) /\ Len(sleeps) = Len(http_log) - 1
    /\ \A k \in DOMAIN warnings :
          /\ Retryable(http_log[k])
          /\ warnings[k].status_code = http_log[k].status_code
          /\ k \in DOMAIN sleeps => sleeps[k] = warnings[k].wait
    /\ hpc = "exit" =>
          /\ Len(warnings) = Len(sleeps)
          /\ Len(sleeps) = Len(transport) - 1

\* C34: against a finite chain of error-free pages whose last page has no
\* token or an empty one, an iteration that is consumed comes to its end;
\* it has then received every page of the chain, each from one harvest call
\* that made one request; and the server is asked for nothing beyond the
\* last page.
C34_ChainIsConsumed ==
    /\ <>[](pc[1] = "done" /\ hpc = "idle")
    /\ [](pc[1] = "done" => /\ nreq[1] = Len(log)
                            /\ n_pages[1] = Len(log)
                            /\ n_yielded[1] = OwedInAll(1))
    /\ [](Len(transport) <= 1 /\ Len(sleeps) = 0 /\ nreq[1] <= Len(log))
    /\ [](hpc = "exit" => hresult.kind = "return" /\ hresult.response.seq = nreq[1])
    /\ [][log' = log]_vars

C34_Witness ==
    /\ pc[1] = "done"
    /\ cls[1] = "OAIItemIterator"
    /\ nreq[1] = MaxFetches
    /\ n_yielded[1] = 2
    /\ last_token[1] = None
    /\ log[MaxFetches][1].body.token = [text |-> None]

\* the requests of the first k harvest calls of the iterator
RECURSIVE TotalRequests(_)
TotalRequests(k) == IF k = 0 THEN 0 ELSE Len(log[k]) + TotalRequests(k - 1)

\* C35: every page fetch of an iterator makes at most max_retries + 1
\* requests, whatever the earlier fetches made, so that p fetches make at
\* most p * (max_retries + 1); while a fetch has received fewer and its
\* response is retryable it does not end with the HTTP error; and a fetch
\* whose last response of max_retries + 1 is an error ends with the HTTP
\* error of that response, which ends the iteration.
C35_BudgetPerPage ==
    [][/\ Len(log) <= nreq[1]
       /\ \A k \in DOMAIN log : Len(log[k]) <= scythe.max_retries + 1
       /\ TotalRequests(Len(log)) <= nreq[1] * (scythe.max_retries + 1)
       /\ (hpc = "loop" /\ hpc' = "exit" /\ caller = 1 /\ hresult'.exc = HTTPStatusError
             /\ Retryable(http_log[Len(http_log)])) =>
             Len(log[nreq[1]]) = scythe.max_retries + 1
       /\ (hpc = "exit" /\ caller = 1 /\ Len(http_log) = scythe.max_retries + 1
             /\ ErrorStatus(http_log[Len(http_log)].status_code)) =>
             /\ hresult = Raised(HTTPStatusError, None, http_log[Len(http_log)].status_code)
             /\ raised'[1] = hresult
             /\ pc'[1] \in {"failed", "raised"}
             /\ n_yielded'[1] = n_yielded[1]]_vars

C35_Witness ==
    /\ pc[1] = "raised"
    /\ raised[1] = Raised(HTTPStatusError, None, 503)
    /\ scythe.max_retries = 1
    /\ Len(log) = 2
    /\ Len(log[1]) = 2 /\ Len(log[2]) = 2

\* C36: the retryable statuses of a Scythe are the codes of the
\* retry_status_codes argument when it is a non-empty collection, and 503
\* alone when it is None (also by default) or an empty collection; and they
\* are the same before, during and after every harvest call.
C36_EffectiveRetryCodes ==
    LET arg == call[DirectCall].query.retry_status_codes
    IN  scythe # NoneObject =>
          /\ (arg # NoneObject /\ arg.codes # {}) => scythe.retry_status_codes = arg.codes
          /\ (arg = NoneObject \/ arg.codes = {}) => scythe.retry_status_codes = {503}

C36_Witness ==
    /\ scythe # NoneObject
    /\ call[DirectCall].query.retry_status_codes = Codes({})
    /\ hpc = "exit"
    /\ http_log = <<[status_code |-> 503, retry_after |-> NoneObject],
                    [status_code |-> 200, retry_after |-> NoneObject]>>
    /\ sleeps = <<60>>

\* iterator i has nothing left to yield and no token to go on with
Exhausted(i) ==
    /\ ~HasToken(resumption_token[i])
    /\ IF cls[i] = "OAIResponseIterator" THEN ~IsObject(oai_response[i]) ELSE items[i] = <<>>

\* C37: an iterator that has come to its end has nothing left and no token;
\* iterating it again, any number of times, only starts a generator that
\* returns at once: no value is yielded, no harvest call and no request is
\* made, and the iterator is at its end again, in response mode and in item
\* mode.
C37_NothingAfterTheEnd ==
    [][/\ pc[1] = "done" =>
             /\ Exhausted(1) /\ Exhausted(1)'
             /\ pc'[1] \in {"done", "running"}
       /\ (pc[1] = "running" /\ Exhausted(1)) => pc'[1] = "done"
       /\ (pc[1] = "done" \/ (pc[1] = "running" /\ Exhausted(1))) =>
             /\ nreq' = nreq /\ n_yielded' = n_yielded /\ yielded' = yielded
             /\ hpc = "idle" /\ hpc' = "idle" /\ transport' = transport]_vars

C37_Witness ==
    /\ pc[1] = "done"
    /\ cls[1] = "OAIResponseIterator"
    /\ nreq[1] = 2 /\ n_yielded[1] = 2
    /\ ENABLED Iterate(1)

\* C38: no value that a response iterator yields is a response in which
\* _next_response found an error element, whatever the caller does with the
\* iterator, iterating it again after a raised exception included.
C38_NoErrorResponseYielded ==
    \A i \in Iters :
        cls[i] = "OAIResponseIterator" =>
            \A k \in DOMAIN yielded[i] : ~yielded[i][k].error

=============================================================================
